---------------------------- MODULE Spec2Model ----------------------------
(***************************************************************************)
(* Session lifecycle of sidebar-server: the connection registry            *)
(* (WeComHub.Run), the per-connection reader (readPump / handleMessage),   *)
(* the writer (writePump), the poller goroutine (startPolling /            *)
(* pollChatMessages / stopPolling) and the assistance dispatch             *)
(* (handleAIAssistanceRequest).                                            *)
(*                                                                         *)
(* Go channels are modelled by their buffer and a closed flag; a send on a *)
(* closed channel, a close of a closed channel and a nil dereference put   *)
(* the process in a crashed state in which no goroutine runs any more.     *)
(***************************************************************************)
EXTENDS Integers, Sequences, FiniteSets, TLC

(***************************************************************************)
(* Bounds of the model.                                                    *)
(***************************************************************************)
\* connections (WeComClient objects) that exist
NConns == 1
\* startPolling goroutines one connection may spawn (one per auth frame)
MaxPollers == 2
\* auth frames over all connections
MaxAuths == 2
\* capacity of Send, scaled down from make(chan []byte, 256)
SendCap == 1
\* highest sequence number the archive hands out
MaxSeq == 2
\* entries of one fetched batch
MaxBatch == 2
\* rows of the Suggestion table
MaxStoreRows == 2
\* linkSuggestionToMessage goroutines that are started
MaxLinks == 2
\* instants of the clock of the Suggestion table
MaxClock == 2
\* length of the texts that are enumerated in full
MaxTextLen == 2
\* ai_assistance_request goroutines in flight per connection
MaxManual == 1
\* readings of time.Now().UnixNano()
MaxNanos == 2
\* goroutines calling getAccessToken / getJSAPITicket
NCallers == 2
\* successful answers of the identity endpoint
MaxIssues == 3
\* largest expires_in (seconds) of the expiry computation
MaxTTL == 720
\* Suggestion rows in the table
MaxRows == 3
\* SUGGESTION_QUERY_LIMIT, scaled down from 10
QueryLimit == 1
\* frames a client sends on one connection
MaxFrames == 2
\* handleAIAssistanceRequest goroutines of one session in flight
MaxDispatches == 2
\* largest index a chunk of media data names for the chunk after it
MaxIndex == 1

(***************************************************************************)
(* Program constants.                                                      *)
(***************************************************************************)
DefaultPollInterval == 5
MinInterval == 1
MaxInterval == 3600
NoClient == 0
NilSDK == 0
NilTicker == 0

Conns == 1..NConns
Agents == {"a1", "a2"}
Pollers == 1..MaxPollers
\* the "interval" (in half seconds) the set_poll_interval frames of the
\* registry model carry
HubIntervalRequests == {2 * DefaultPollInterval}

\* credential cache: the default TTL and the least early-expiry margin (s)
DefaultTTL == 7200
MinEarlyExpire == 60
NoValue == 0
Callers == 1..NCallers
\* the three slots of tokenCache and the requests that read them
Slots == {"accessToken", "jsapiTicket", "agentJSAPITicket"}
Ops == {"token", "agent_config", "corp"}
\* the requests the callers of the cache model make
CacheOps == {"token", "agent_config"}
\* expires_in values of the identity endpoint (0: the field is missing)
TTLs == {0, 30, 90}
\* the instants (seconds) at which something happens
Times == {0, 20, 200}
EmptySlot == [value |-> NoValue, expireAt |-> 0, at |-> 0, ttl |-> 0]
NoResp == [n |-> NoValue, ttl |-> 0, at |-> 0]
\* similarity matcher: the default threshold (percent) and the thresholds
\* SUGGESTION_SIMILARITY_THRESHOLD is set to
DefaultThreshold == 80
Thresholds == {DefaultThreshold, 92}
\* results of calculateCosineSimilarity on two different non-empty texts,
\* in percent
Cosines == {79, 80, 92}
\* created_at values of the rows
CreatedAts == {1, 2}
\* msgid values of the archive and the msgtime field of each, when the
\* entry carries one
MsgIDs == {"m1", "m2"}
MsgTimes == [m \in MsgIDs |-> 1]
LinkCalls == 1..MaxLinks
IdleLink ==
    [stage |-> "idle", msgID |-> "", msgTime |-> 0, selected |-> 0,
     similarity |-> 0]
\* the characters of the texts: a letter, an upper-case letter, a separator
Alphabet == {"a", "B", " "}
\* texts longer than MaxTextLen: two words, the same words in another
\* order, a repeated word, punctuation between the words
Samples ==
    {<<"a", "B", " ", "B", "a">>, <<"B", "a", " ", "a", "B">>,
     <<"a", "B", " ", "a", "B", " ", "B", "a">>, <<"a", "a", " ", "B", "a">>}
Texts == UNION {[1..n -> Alphabet] : n \in 0..MaxTextLen} \cup Samples
IdleCaller ==
    [pc |-> "idle", op |-> "token", slot |-> "accessToken", resp |-> NoResp,
     ret |-> NoValue, hit |-> FALSE]

VARIABLES
    Clients,         \* h.Clients: agent id -> connection, NoClient when absent
    AgentID,         \* c.AgentID, "" before the first auth frame
    Send,            \* c.Send: the buffered frames
    sendClosed,      \* c.Send has been closed
    pollSeq,         \* c.pollSeq
    pollTicker,      \* c.pollTicker: NilTicker or the period of the ticker (s)
    pollStop,        \* c.pollStop has been closed
    pollInterval,    \* c.pollInterval, in seconds
    pollIntervalCh,  \* c.pollIntervalCh (capacity 1)
    weworkSDK,       \* c.weworkSDK: NilSDK or the poller whose SDK it is
    sdk,             \* vendor session of each startPolling goroutine
    pc,              \* position of each startPolling goroutine
    maxSeq,          \* local maxSeq of a poll cycle in progress
    rp,              \* position of readPump
    manual,          \* handleAIAssistanceRequest goroutines started by frames
    crash,           \* "none" or the runtime panic that ended the process
    crashAt,         \* the function that panicked
    cyc,             \* one pollChatMessages call followed entry by entry
    tok,             \* tokenCache, its callers, the identity endpoint, the clock
    lnk,             \* one linkSuggestionToMessage call and the Suggestion rows
    sim,             \* one scoring of a Suggestion row against a message text
    store,           \* the Suggestion table and the linkSuggestionToMessage goroutines
    mu,              \* c.mu and the statements of one session's goroutines that touch its fields
    fb,              \* the frames of one connection: sent by the client, read by readPump
    asst,            \* the handleAIAssistanceRequest goroutines of one session, the clock and the rows they insert
    reg              \* the registry with two connections of agents that may share an id

hubVars == <<Clients, AgentID, Send, sendClosed, pollSeq, pollTicker, pollStop,
             pollInterval, pollIntervalCh, weworkSDK, sdk, pc, maxSeq, rp,
             manual, crash, crashAt>>
\* the variables of the credential cache and of the similarity matcher
sideVars == <<tok, lnk, sim, store, mu, fb, asst, reg>>
vars == <<hubVars, cyc, sideVars>>

\* the state of a process that has just started: every connection accepted
\* (WeComWebSocketHandler), nothing registered
Fresh(cl, ag, sd, sc, ps, pt, pst, pi, pch, ws, sk, p, ms, r, mn) ==
    /\ cl = [a \in Agents |-> NoClient]
    /\ ag = [c \in Conns |-> ""]
    /\ sd = [c \in Conns |-> <<>>]
    /\ sc = [c \in Conns |-> FALSE]
    /\ ps = [c \in Conns |-> 0]
    /\ pt = [c \in Conns |-> NilTicker]
    /\ pst = [c \in Conns |-> FALSE]
    /\ pi = [c \in Conns |-> DefaultPollInterval]
    /\ pch = [c \in Conns |-> <<>>]
    /\ ws = [c \in Conns |-> NilSDK]
    /\ sk = [c \in Conns |-> [i \in Pollers |-> "none"]]
    /\ p = [c \in Conns |-> [i \in Pollers |-> "none"]]
    /\ ms = [c \in Conns |-> [i \in Pollers |-> 0]]
    /\ r = [c \in Conns |-> "reading"]
    /\ mn = [c \in Conns |-> 0]

\* no pollChatMessages call is being followed
NoCycle ==
    [stage |-> "off", agentID |-> "", chatID |-> "", cursor |-> 0, seq |-> 0,
     batch |-> <<>>, idx |-> 0, maxSeq |-> 0, chatMessages |-> <<>>,
     links |-> <<>>, dispatched |-> {}, committed |-> FALSE,
     pending |-> {}, calls |-> 0, answers |-> 0, dropped |-> 0, pushed |-> <<>>,
     media |-> [idx |-> 0, indexbuf |-> 0, isFinish |-> FALSE]]

InitHub ==
    /\ Fresh(Clients, AgentID, Send, sendClosed, pollSeq, pollTicker, pollStop,
             pollInterval, pollIntervalCh, weworkSDK, sdk, pc, maxSeq, rp, manual)
    /\ crash = "none"
    /\ crashAt = "none"

\* the empty tokenCache at time 0, no caller inside getAccessToken or
\* getJSAPITicket
NoCache ==
    [now |-> 0,
     cache |-> [sl \in Slots |-> EmptySlot],
     callers |-> [p \in Callers |-> IdleCaller],
     issued |-> 0]

\* no linkSuggestionToMessage call is being followed
NoLink ==
    [stage |-> "off", threshold |-> DefaultThreshold, rows |-> <<>>,
     found |-> {}, matched |-> {}, selected |-> 0]

\* a similarity as the square of its percentage, num / den, so that the
\* quotient by the square roots of the magnitudes stays exact
Zero == [num |-> 0, den |-> 1]
Hundred == [num |-> 100 * 100, den |-> 1]

\* no scoring is being followed
NoSim ==
    [stage |-> "off", content |-> <<>>, original |-> <<>>, edited |-> <<>>,
     matchType |-> "", similarity |-> Zero]

\* an empty Suggestion table, no linkSuggestionToMessage goroutine
NoStore ==
    [now |-> 0, rows |-> <<>>, calls |-> [k \in LinkCalls |-> IdleLink],
     threshold |-> DefaultThreshold]

\* the goroutines of one session that touch the fields of its WeComClient
Tasks == {"readPump", "Run", "startPolling"}

\* c.mu is free, readPump waits for a frame, no poller runs
NoMu ==
    [holder |-> "", stop |-> FALSE,
     pc |-> [t \in Tasks |-> IF t = "readPump" THEN "read"
                            ELSE IF t = "Run" THEN "idle" ELSE "none"]]

\* the assistance requests of one session that may run at the same time
Dispatches == 1..MaxDispatches

\* no handleAIAssistanceRequest goroutine runs, no row is in the table, no
\* ai_suggestion event was enqueued
NoDispatch == [stage |-> "idle", id |-> <<>>, sent |-> FALSE]
NoAsst ==
    [now |-> 0, calls |-> [d \in Dispatches |-> NoDispatch], rows |-> <<>>,
     events |-> <<>>]

\* two accepted connections, nothing registered
RegConns == 1..2
NoReg ==
    [Clients |-> [a \in Agents |-> NoClient],
     AgentID |-> [c \in RegConns |-> ""],
     rp |-> [c \in RegConns |-> "reading"],
     sendClosed |-> [c \in RegConns |-> FALSE],
     pollStop |-> [c \in RegConns |-> FALSE],
     pollers |-> [c \in RegConns |-> 0]]

\* no frame sent by the client, none read by readPump, no
\* handleSetPollInterval between its two critical sections (interval is its
\* local newInterval, in seconds)
NoFrames == [inbox |-> <<>>, log |-> <<>>, interval |-> 0]

Init == InitHub /\ cyc = NoCycle /\ tok = NoCache /\ lnk = NoLink /\ sim = NoSim /\ store = NoStore /\ mu = NoMu /\ fb = NoFrames /\ asst = NoAsst /\ reg = NoReg

Running == crash = "none"

\* a runtime panic in function `site`: the process exits and none of its
\* state survives
Panic(kind, site) ==
    /\ crash' = kind
    /\ crashAt' = site
    /\ Fresh(Clients', AgentID', Send', sendClosed', pollSeq', pollTicker',
             pollStop', pollInterval', pollIntervalCh', weworkSDK', sdk', pc',
             maxSeq', rp', manual')
    /\ UNCHANGED <<cyc, sideVars>>

(***************************************************************************)
(* SendMessage: non-blocking enqueue on c.Send.                            *)
(***************************************************************************)
\* outcome of `select { case c.Send <- message: ... default: ... }`
SendOutcome(buf, closed) ==
    IF closed THEN "panic"
    ELSE IF Len(buf) < SendCap THEN "ok"
    ELSE "ErrSendBufferFull"

\* a frame for the client: its "type" and, for the poll-interval events, the
\* "poll_interval" it names, in half seconds (0 for the other frames)
Frame(type, halves) ==
    [type |-> type, poll_interval |-> halves, suggestion_id |-> <<>>]

\* suggestionID := fmt.Sprintf("sug_%d", time.Now().UnixNano())
SuggestionID(nanos) == <<"sug_", nanos>>

\* the ai_suggestion frame of handleAIAssistanceRequest
SuggestionFrame(nanos) ==
    [Frame("ai_suggestion", 0) EXCEPT !.suggestion_id = SuggestionID(nanos)]

\* AssistanceReply without the check for an empty suggestion text
AssistanceReply_NoTextCheck(answered, nanos) ==
    <<SuggestionFrame(nanos)>>

\* what handleAIAssistanceRequest pushes with SendMessage: nothing when
\* callAgentAPI fails or its answer carries no text
AssistanceReply(answered, nanos) ==
    IF answered THEN <<SuggestionFrame(nanos)>> ELSE <<>>

\* c.Send after c.SendMessage(m) on an open queue
Enqueue(c, m) ==
    IF SendOutcome(Send[c], sendClosed[c]) = "ok"
    THEN [Send EXCEPT ![c] = Append(@, m)]
    ELSE Send

(***************************************************************************)
(* The entries of a fetched batch and the loop of pollChatMessages over    *)
(* them.                                                                   *)
(***************************************************************************)
\* an archive entry without its sequence number.  stage tells how far the
\* entry gets through the decryption pipeline: "notmap", "nokey",
\* "baddecrypt", "badjson" or "ok"; the fields after it are those of the
\* decrypted message and only matter when stage = "ok"
Template(hasSeq, stage, from, msgtype, voice, action, msgid) ==
    [hasSeq |-> hasSeq, stage |-> stage, from |-> from, msgtype |-> msgtype,
     voice |-> voice, action |-> action, msgid |-> msgid]

\* an element of chatdata that is not a JSON object has no fields at all
NotMapTemplate == Template(FALSE, "notmap", "", "", "ok", "", "")

\* entries that are dropped before their plaintext is parsed
FailedTemplates ==
    {Template(TRUE, st, "", "", "ok", "", "") : st \in {"nokey", "baddecrypt", "badjson"}}

\* decrypted entries: text from nobody, the conversation, the agent, a third
\* party; text flagged action = "send"; other kinds; voice; no seq; no msgid
DecryptedTemplates ==
    {Template(TRUE, "ok", f, "text", "ok", "", "m") : f \in {"", "chat1", "a1", "x"}}
        \cup {Template(TRUE, "ok", f, "text", "ok", "send", "m") : f \in {"chat1", "a1"}}
        \cup {Template(TRUE, "ok", "chat1", t, "ok", "", "m") : t \in {"", "image", "voice"}}
        \cup {Template(TRUE, "ok", "chat1", "voice", "bad", "", "m"),
              Template(FALSE, "ok", "chat1", "text", "ok", "", "m"),
              Template(TRUE, "ok", "a1", "text", "ok", "", "")}

EntryTemplates == {NotMapTemplate} \cup FailedTemplates \cup DecryptedTemplates

\* the entries the registry model draws its batches from
HubTemplates ==
    {Template(TRUE, "baddecrypt", "", "", "ok", "", ""),
     Template(TRUE, "ok", "chat1", "text", "ok", "", "m"),
     Template(TRUE, "ok", "x", "text", "ok", "", "m")}

\* sdk.GetChatData(seq, ...): the entries after seq, numbered seq+1, seq+2, ...
\* (an entry without a "seq" field reads as msgSeq = 0)
Batches(seq, T) ==
    UNION {{[k \in 1..n |->
                [seq |-> IF t[k].hasSeq THEN seq + k ELSE 0] @@ t[k]] :
              t \in [1..n -> T]} :
           n \in 1..(IF MaxSeq - seq < MaxBatch THEN MaxSeq - seq ELSE MaxBatch)}

\* isAgentMessage
IsAgentMessage(e, agentID) ==
    IF e.action = "send"
    THEN e.from = agentID
    ELSE e.from = agentID

\* ProcessEntry with the sequence number taken only from entries that decrypt
ProcessEntry_SeqAfterDecrypt(e, idx, acc, agentID, chatID) ==
    IF e.stage # "ok" THEN acc
    ELSE
      LET seen == [acc EXCEPT !.maxSeq = IF e.seq > @ THEN e.seq ELSE @] IN
      IF e.from # "" /\ e.from # chatID THEN seen
      ELSE IF e.msgtype \notin {"text", "voice"} THEN seen
      ELSE IF e.msgtype = "voice" /\ e.voice = "bad" THEN seen
      ELSE [seen EXCEPT !.chatMessages =
                Append(@, <<IF e.from = "" THEN chatID ELSE e.from, idx>>)]

\* one iteration of `for _, msgItem := range chatdata`; acc holds maxSeq,
\* chatMessages (as the list of <<chatID, index>> kept) and the indices
\* handed to linkSuggestionToMessage
ProcessEntry(e, idx, acc, agentID, chatID) ==
    IF e.stage = "notmap" THEN acc
    ELSE
      LET seen == [acc EXCEPT !.maxSeq = IF e.seq > @ THEN e.seq ELSE @] IN
      IF e.stage # "ok" THEN seen
      ELSE IF e.from # "" /\ e.from # chatID THEN seen
      ELSE IF e.msgtype \notin {"text", "voice"} THEN seen
      ELSE IF e.msgtype = "voice" /\ e.voice = "bad" THEN seen
      ELSE
        LET linked == IF IsAgentMessage(e, agentID) /\ e.msgid # ""
                      THEN [seen EXCEPT !.links = Append(@, idx)]
                      ELSE seen
            key == IF e.from = "" THEN chatID ELSE e.from
        IN [linked EXCEPT !.chatMessages = Append(@, <<key, idx>>)]

RECURSIVE ProcessFrom(_, _, _, _, _)
ProcessFrom(batch, idx, acc, agentID, chatID) ==
    IF idx > Len(batch) THEN acc
    ELSE ProcessFrom(batch, idx + 1,
                     ProcessEntry(batch[idx], idx, acc, agentID, chatID),
                     agentID, chatID)

\* the whole loop, starting from maxSeq := seq
ProcessBatch(seq, batch, agentID, chatID) ==
    ProcessFrom(batch, 1, [maxSeq |-> seq, chatMessages |-> <<>>, links |-> <<>>],
                agentID, chatID)

\* c.ChatID: every auth frame of the registry model names conversation chat1
ChatID(c) == IF AgentID[c] = "" THEN "" ELSE "chat1"

(***************************************************************************)
(* readPump / handleMessage: the frames of a connection.                   *)
(***************************************************************************)
HasKey(a) == a \in Agents /\ Clients[a] # NoClient

\* the startPolling goroutine the next Register of c will spawn
NextPoller(c) ==
    CHOOSE i \in Pollers : pc[c][i] = "none" /\ \A j \in 1..(i-1) : pc[c][j] # "none"
CanSpawn(c) == \E i \in Pollers : pc[c][i] = "none"

\* auth frames received so far: each has spawned a poller or waits to register
Auths ==
    Cardinality({<<c, i>> \in Conns \X Pollers : pc[c][i] # "none"})
        + Cardinality({c \in Conns : rp[c] = "registering"})

\* case "auth": c.AgentID = msg.AgentID; c.ChatID = msg.ChatID, then the
\* reader blocks on hub.Register <- c
AuthFrame(c, a) ==
    /\ Running /\ rp[c] = "reading"
    /\ Auths < MaxAuths /\ CanSpawn(c)
    /\ AgentID' = [AgentID EXCEPT ![c] = a]
    /\ rp' = [rp EXCEPT ![c] = "registering"]
    /\ UNCHANGED <<Clients, Send, sendClosed, pollSeq, pollTicker, pollStop,
                   pollInterval, pollIntervalCh, weworkSDK, sdk, pc, maxSeq,
                   manual, crash, crashAt, cyc, sideVars>>

\* case client := <-h.Register
Register(c) ==
    /\ Running /\ rp[c] = "registering"
    /\ IF sendClosed[c]
       THEN Panic("send on closed channel", "Run.Register")
       ELSE /\ Clients' = [Clients EXCEPT ![AgentID[c]] = c]
            /\ Send' = Enqueue(c, Frame("auth_success", 0))
            /\ pc' = [pc EXCEPT ![c][NextPoller(c)] = "start"]
            /\ rp' = [rp EXCEPT ![c] = "reading"]
            /\ UNCHANGED <<AgentID, sendClosed, pollSeq, pollTicker, pollStop,
                           pollInterval, pollIntervalCh, weworkSDK, sdk, maxSeq,
                           manual, crash, crashAt, cyc, sideVars>>

\* stopPolling: the ticker is cleared and pollStop closed unless already closed
StopTicker(c) == [pollTicker EXCEPT ![c] = NilTicker]
StopSignal(c) == [pollStop EXCEPT ![c] = TRUE]

\* readPump's read fails; its deferred hub.Unregister <- c is received by
\* case client := <-h.Unregister
Unregister(c) ==
    /\ Running /\ rp[c] = "reading"
    /\ IF HasKey(AgentID[c])
       THEN IF sendClosed[c]
            THEN Panic("close of closed channel", "Run.Unregister")
            ELSE /\ Clients' = [Clients EXCEPT ![AgentID[c]] = NoClient]
                 /\ sendClosed' = [sendClosed EXCEPT ![c] = TRUE]
                 /\ pollTicker' = StopTicker(c)
                 /\ pollStop' = StopSignal(c)
                 /\ rp' = [rp EXCEPT ![c] = "exited"]
                 /\ UNCHANGED <<AgentID, Send, pollSeq, pollInterval,
                                pollIntervalCh, weworkSDK, sdk, pc, maxSeq,
                                manual, crash, crashAt, cyc, sideVars>>
       ELSE /\ rp' = [rp EXCEPT ![c] = "exited"]
            /\ UNCHANGED <<Clients, AgentID, Send, sendClosed, pollSeq,
                           pollTicker, pollStop, pollInterval, pollIntervalCh,
                           weworkSDK, sdk, pc, maxSeq, manual, crash, crashAt,
                           cyc, sideVars>>

\* case "ai_assistance_request": go c.handleAIAssistanceRequest(msg)
AssistanceFrame(c) ==
    /\ Running /\ rp[c] = "reading"
    /\ manual[c] < MaxManual
    /\ manual' = [manual EXCEPT ![c] = @ + 1]
    /\ UNCHANGED <<Clients, AgentID, Send, sendClosed, pollSeq, pollTicker,
                   pollStop, pollInterval, pollIntervalCh, weworkSDK, sdk, pc,
                   maxSeq, rp, crash, crashAt, cyc, sideVars>>

\* handleAIAssistanceRequest started by a frame: callAgentAPI fails or has no
\* text (answered = FALSE), or the ai_suggestion is pushed with SendMessage
\* (the registry model does not follow the clock: every id reads sug_0)
ManualAssistance(c, answered) ==
    /\ Running /\ manual[c] > 0
    /\ IF answered /\ sendClosed[c]
       THEN Panic("send on closed channel", "handleAIAssistanceRequest")
       ELSE /\ manual' = [manual EXCEPT ![c] = @ - 1]
            /\ Send' = IF answered THEN Enqueue(c, SuggestionFrame(0)) ELSE Send
            /\ UNCHANGED <<Clients, AgentID, sendClosed, pollSeq, pollTicker,
                           pollStop, pollInterval, pollIntervalCh, weworkSDK,
                           sdk, pc, maxSeq, rp, crash, crashAt, cyc, sideVars>>

\* time.Duration(intervalSec): the float64 of the frame, given in half
\* seconds, converted to whole seconds by truncation toward zero
Seconds(halves) ==
    IF halves >= 0 THEN halves \div 2 ELSE 0 - ((0 - halves) \div 2)

\* the reply handleSetPollInterval sends with SendMessage, "" when it sends none
SetPollIntervalReply(c, halves) ==
    IF Seconds(halves) < MinInterval \/ Seconds(halves) > MaxInterval
    THEN "poll_interval_error"
    ELSE IF weworkSDK[c] = NilSDK THEN "poll_interval_updated"
    ELSE IF Len(pollIntervalCh[c]) < 1 THEN ""
    ELSE "poll_interval_error"

\* handleSetPollInterval with content {"interval": halves / 2}.  Without a
\* poller the confirmation names intervalSec as it came in the frame.
SetPollInterval(c, halves) ==
    LET reply == SetPollIntervalReply(c, halves) IN
    /\ Running /\ rp[c] = "reading"
    /\ IF reply # "" /\ sendClosed[c]
       THEN Panic("send on closed channel", "handleSetPollInterval")
       ELSE /\ Send' = IF reply = "poll_interval_updated"
                       THEN Enqueue(c, Frame(reply, halves))
                       ELSE IF reply = "poll_interval_error"
                       THEN Enqueue(c, Frame(reply, 0))
                       ELSE Send
            /\ pollInterval' = IF reply = "poll_interval_updated"
                               THEN [pollInterval EXCEPT ![c] = Seconds(halves)]
                               ELSE pollInterval
            /\ pollIntervalCh' = IF reply = ""
                                 THEN [pollIntervalCh EXCEPT ![c] =
                                          Append(@, Seconds(halves))]
                                 ELSE pollIntervalCh
            /\ UNCHANGED <<Clients, AgentID, sendClosed, pollSeq, pollTicker,
                           pollStop, weworkSDK, sdk, pc, maxSeq, rp, manual,
                           crash, crashAt, cyc, sideVars>>

\* handleSetPollInterval with content that is not a JSON object or has no
\* numeric "interval"
SetPollIntervalMalformed(c) ==
    /\ Running /\ rp[c] = "reading"
    /\ IF sendClosed[c]
       THEN Panic("send on closed channel", "handleSetPollInterval")
       ELSE /\ Send' = Enqueue(c, Frame("poll_interval_error", 0))
            /\ UNCHANGED <<Clients, AgentID, sendClosed, pollSeq, pollTicker,
                           pollStop, pollInterval, pollIntervalCh, weworkSDK,
                           sdk, pc, maxSeq, rp, manual, crash, crashAt, cyc, sideVars>>

\* handleGetPollInterval
GetPollInterval(c) ==
    /\ Running /\ rp[c] = "reading"
    /\ IF sendClosed[c]
       THEN Panic("send on closed channel", "handleGetPollInterval")
       ELSE /\ Send' = Enqueue(c, Frame("poll_interval_info", 2 * pollInterval[c]))
            /\ UNCHANGED <<Clients, AgentID, sendClosed, pollSeq, pollTicker,
                           pollStop, pollInterval, pollIntervalCh, weworkSDK,
                           sdk, pc, maxSeq, rp, manual, crash, crashAt, cyc, sideVars>>

\* writePump: takes the first frame and the len(c.Send) frames behind it
WritePump(c) ==
    /\ Running /\ Send[c] # <<>>
    /\ Send' = [Send EXCEPT ![c] = <<>>]
    /\ UNCHANGED <<Clients, AgentID, sendClosed, pollSeq, pollTicker, pollStop,
                   pollInterval, pollIntervalCh, weworkSDK, sdk, pc, maxSeq,
                   rp, manual, crash, crashAt, cyc, sideVars>>

(***************************************************************************)
(* case message := <-h.Broadcast: the range over h.Clients.                *)
(***************************************************************************)
\* the orders in which `range h.Clients` may produce the keys
Orders(S) ==
    {o \in [1..Cardinality(S) -> S] : \A i, j \in DOMAIN o : i # j => o[i] # o[j]}

\* the body of the loop for key k; a key deleted earlier in the loop is not
\* produced any more
BroadcastOne(k, st) ==
    LET c == st.Clients[k] IN
    IF c = NoClient \/ st.panic THEN st
    ELSE IF st.sendClosed[c]
    THEN [st EXCEPT !.panic = TRUE]
    ELSE IF Len(st.Send[c]) < SendCap
    THEN [st EXCEPT !.Send[c] = Append(@, Frame("broadcast", 0))]
    ELSE [st EXCEPT !.sendClosed[c] = TRUE,
                    !.Clients = IF AgentID[c] \in Agents
                                THEN [@ EXCEPT ![AgentID[c]] = NoClient]
                                ELSE @]

RECURSIVE BroadcastLoop(_, _, _)
BroadcastLoop(order, i, st) ==
    IF i > Len(order) THEN st
    ELSE BroadcastLoop(order, i + 1, BroadcastOne(order[i], st))

\* the state the loop leaves when the keys are produced in this order
BroadcastResult(order) ==
    BroadcastLoop(order, 1, [Clients |-> Clients, Send |-> Send,
                             sendClosed |-> sendClosed, panic |-> FALSE])

BroadcastIn(order) ==
    LET st == BroadcastResult(order) IN
    /\ Running
    /\ IF st.panic
       THEN Panic("send on closed channel", "Run.Broadcast")
       ELSE /\ Clients' = st.Clients
            /\ Send' = st.Send
            /\ sendClosed' = st.sendClosed
            /\ UNCHANGED <<AgentID, pollSeq, pollTicker, pollStop, pollInterval,
                           pollIntervalCh, weworkSDK, sdk, pc, maxSeq, rp,
                           manual, crash, crashAt, cyc, sideVars>>

Broadcast ==
    \E order \in Orders({a \in Agents : Clients[a] # NoClient}) : BroadcastIn(order)

(***************************************************************************)
(* startPolling: one goroutine per Register.                               *)
(***************************************************************************)
\* missing environment or sdk.Init error: the goroutine returns (after
\* sdk.Destroy() when Init failed)
StartFail(c, i) ==
    /\ Running /\ pc[c][i] = "start"
    /\ pc' = [pc EXCEPT ![c][i] = "stopped"]
    /\ UNCHANGED <<Clients, AgentID, Send, sendClosed, pollSeq, pollTicker,
                   pollStop, pollInterval, pollIntervalCh, weworkSDK, sdk,
                   maxSeq, rp, manual, crash, crashAt, cyc, sideVars>>

\* StartOK without the call of pollChatMessages ahead of the loop: the first
\* fetch waits for the ticker
StartOK_AwaitTick(c, i) ==
    /\ Running /\ pc[c][i] = "start"
    /\ sdk' = [sdk EXCEPT ![c][i] = "open"]
    /\ weworkSDK' = [weworkSDK EXCEPT ![c] = i]
    /\ pollTicker' = [pollTicker EXCEPT ![c] = pollInterval[c]]
    /\ pc' = [pc EXCEPT ![c][i] = "loop"]
    /\ UNCHANGED <<Clients, AgentID, Send, sendClosed, pollSeq, pollStop,
                   pollInterval, pollIntervalCh, maxSeq, rp, manual, crash,
                   crashAt, cyc, sideVars>>

\* sdk.Init succeeded: c.weworkSDK = sdk; c.pollTicker = NewTicker(c.pollInterval);
\* the next statement is the first c.pollChatMessages()
StartOK(c, i) ==
    /\ Running /\ pc[c][i] = "start"
    /\ sdk' = [sdk EXCEPT ![c][i] = "open"]
    /\ weworkSDK' = [weworkSDK EXCEPT ![c] = i]
    /\ pollTicker' = [pollTicker EXCEPT ![c] = pollInterval[c]]
    /\ pc' = [pc EXCEPT ![c][i] = "poll"]
    /\ UNCHANGED <<Clients, AgentID, Send, sendClosed, pollSeq, pollStop,
                   pollInterval, pollIntervalCh, maxSeq, rp, manual, crash,
                   crashAt, cyc, sideVars>>

\* pollChatMessages up to wg.Wait(): the cursor is read, the batch fetched
\* and its entries processed.  A nil SDK, a fetch error or an empty result
\* (batch = <<>>) returns at once.
PollFetch(c, i, batch) ==
    /\ Running /\ pc[c][i] = "poll"
    /\ IF weworkSDK[c] = NilSDK \/ batch = <<>>
       THEN /\ pc' = [pc EXCEPT ![c][i] = "loop"]
            /\ UNCHANGED maxSeq
       ELSE LET r == ProcessBatch(pollSeq[c], batch, AgentID[c], ChatID(c)) IN
            /\ maxSeq' = [maxSeq EXCEPT ![c][i] = r.maxSeq]
            /\ pc' = [pc EXCEPT ![c][i] =
                         IF r.chatMessages # <<>> THEN "dispatch" ELSE "commit"]
    /\ UNCHANGED <<Clients, AgentID, Send, sendClosed, pollSeq, pollTicker,
                   pollStop, pollInterval, pollIntervalCh, weworkSDK, sdk, rp,
                   manual, crash, crashAt, cyc, sideVars>>

\* the dispatch goroutine of the cycle: handleAIAssistanceRequest, then
\* wg.Wait() returns
PollDispatch(c, i, answered) ==
    /\ Running /\ pc[c][i] = "dispatch"
    /\ IF answered /\ sendClosed[c]
       THEN Panic("send on closed channel", "handleAIAssistanceRequest")
       ELSE /\ Send' = IF answered THEN Enqueue(c, SuggestionFrame(0)) ELSE Send
            /\ pc' = [pc EXCEPT ![c][i] = "commit"]
            /\ UNCHANGED <<Clients, AgentID, sendClosed, pollSeq, pollTicker,
                           pollStop, pollInterval, pollIntervalCh, weworkSDK,
                           sdk, maxSeq, rp, manual, crash, crashAt, cyc, sideVars>>

\* c.pollSeq = maxSeq
PollCommit(c, i) ==
    /\ Running /\ pc[c][i] = "commit"
    /\ pollSeq' = [pollSeq EXCEPT ![c] = maxSeq[c][i]]
    /\ maxSeq' = [maxSeq EXCEPT ![c][i] = 0]
    /\ pc' = [pc EXCEPT ![c][i] = "loop"]
    /\ UNCHANGED <<Clients, AgentID, Send, sendClosed, pollTicker, pollStop,
                   pollInterval, pollIntervalCh, weworkSDK, sdk, rp, manual,
                   crash, crashAt, cyc, sideVars>>

\* the select statement evaluates c.pollTicker.C on entry
SelectEnter(c, i) ==
    /\ Running /\ pc[c][i] = "loop"
    /\ IF pollTicker[c] = NilTicker
       THEN Panic("nil pointer dereference", "startPolling")
       ELSE /\ pc' = [pc EXCEPT ![c][i] = "select"]
            /\ UNCHANGED <<Clients, AgentID, Send, sendClosed, pollSeq,
                           pollTicker, pollStop, pollInterval, pollIntervalCh,
                           weworkSDK, sdk, maxSeq, rp, manual, crash, crashAt,
                           cyc, sideVars>>

\* case <-c.pollTicker.C
Tick(c, i) ==
    /\ Running /\ pc[c][i] = "select"
    /\ pc' = [pc EXCEPT ![c][i] = "poll"]
    /\ UNCHANGED <<Clients, AgentID, Send, sendClosed, pollSeq, pollTicker,
                   pollStop, pollInterval, pollIntervalCh, weworkSDK, sdk,
                   maxSeq, rp, manual, crash, crashAt, cyc, sideVars>>

\* case newInterval := <-c.pollIntervalCh
IntervalChange(c, i) ==
    /\ Running /\ pc[c][i] = "select"
    /\ pollIntervalCh[c] # <<>>
    /\ IF sendClosed[c]
       THEN Panic("send on closed channel", "startPolling")
       ELSE /\ pollIntervalCh' = [pollIntervalCh EXCEPT ![c] = Tail(@)]
            /\ pollInterval' = [pollInterval EXCEPT ![c] = Head(pollIntervalCh[c])]
            /\ pollTicker' = [pollTicker EXCEPT ![c] = Head(pollIntervalCh[c])]
            /\ Send' = Enqueue(c, Frame("poll_interval_updated",
                                        2 * Head(pollIntervalCh[c])))
            /\ pc' = [pc EXCEPT ![c][i] = "loop"]
            /\ UNCHANGED <<Clients, AgentID, sendClosed, pollSeq, pollStop,
                           weworkSDK, sdk, maxSeq, rp, manual, crash, crashAt,
                           cyc, sideVars>>

\* case <-c.pollStop
StopCase(c, i) ==
    /\ Running /\ pc[c][i] = "select"
    /\ pollStop[c]
    /\ sdk' = IF weworkSDK[c] # NilSDK
              THEN [sdk EXCEPT ![c][weworkSDK[c]] = "destroyed"]
              ELSE sdk
    /\ weworkSDK' = [weworkSDK EXCEPT ![c] = NilSDK]
    /\ pollTicker' = [pollTicker EXCEPT ![c] = NilTicker]
    /\ pc' = [pc EXCEPT ![c][i] = "stopped"]
    /\ UNCHANGED <<Clients, AgentID, Send, sendClosed, pollSeq, pollStop,
                   pollInterval, pollIntervalCh, maxSeq, rp, manual, crash,
                   crashAt, cyc, sideVars>>

Next ==
    \/ \E c \in Conns, a \in Agents : AuthFrame(c, a)
    \/ \E c \in Conns : Register(c)
    \/ \E c \in Conns : Unregister(c)
    \/ \E c \in Conns : AssistanceFrame(c)
    \/ \E c \in Conns, answered \in BOOLEAN : ManualAssistance(c, answered)
    \/ \E c \in Conns, sec \in HubIntervalRequests : SetPollInterval(c, sec)
    \/ \E c \in Conns : WritePump(c)
    \/ Broadcast
    \/ \E c \in Conns, i \in Pollers : StartFail(c, i)
    \/ \E c \in Conns, i \in Pollers : StartOK(c, i)
    \/ \E c \in Conns, i \in Pollers :
         /\ pc[c][i] = "poll"
         /\ \E batch \in {<<>>} \cup Batches(pollSeq[c], HubTemplates) :
              PollFetch(c, i, batch)
    \/ \E c \in Conns, i \in Pollers, answered \in BOOLEAN : PollDispatch(c, i, answered)
    \/ \E c \in Conns, i \in Pollers : PollCommit(c, i)
    \/ \E c \in Conns, i \in Pollers : SelectEnter(c, i)
    \/ \E c \in Conns, i \in Pollers : Tick(c, i)
    \/ \E c \in Conns, i \in Pollers : IntervalChange(c, i)
    \/ \E c \in Conns, i \in Pollers : StopCase(c, i)

Spec == Init /\ [][Next]_vars

(***************************************************************************)
(* One call of pollChatMessages, followed entry by entry.                  *)
(***************************************************************************)
\* c.mu.Lock(); sdk := c.weworkSDK; seq := c.pollSeq, for a session of agent
\* a1 whose conversation id is chat1 or the agent's own id
InitCycle ==
    /\ InitHub /\ tok = NoCache /\ lnk = NoLink /\ sim = NoSim /\ store = NoStore /\ mu = NoMu /\ fb = NoFrames /\ asst = NoAsst /\ reg = NoReg
    /\ cyc \in {[NoCycle EXCEPT !.stage = "fetch", !.agentID = "a1",
                                !.chatID = ch, !.cursor = s, !.seq = s] :
                  ch \in {"chat1", "a1"}, s \in 0..MaxSeq}

\* CycFetchNothing that goes to the end of the function, where the cursor
\* is written from a maxSeq that was never set
CycFetchNothing_Commit ==
    /\ cyc.stage = "fetch"
    /\ cyc' = [cyc EXCEPT !.stage = "done", !.cursor = cyc.maxSeq,
                          !.committed = TRUE]
    /\ UNCHANGED <<hubVars, sideVars>>

\* sdk.GetChatData fails, or its result is empty, unparseable, carries an
\* errcode or has no chatdata: the call returns
CycFetchNothing ==
    /\ cyc.stage = "fetch"
    /\ cyc' = [cyc EXCEPT !.stage = "done"]
    /\ UNCHANGED <<hubVars, sideVars>>

\* a non-empty chatdata array: maxSeq := seq and the loop starts
CycFetch(batch) ==
    /\ cyc.stage = "fetch"
    /\ cyc' = [cyc EXCEPT !.stage = "loop", !.batch = batch, !.idx = 1,
                          !.maxSeq = cyc.seq]
    /\ UNCHANGED <<hubVars, sideVars>>

\* CycEntry with `break` in place of `continue` where an entry fails to
\* decrypt or to parse
CycEntry_StopAtFailure ==
    /\ cyc.stage = "loop" /\ cyc.idx <= Len(cyc.batch)
    /\ LET acc == ProcessEntry(cyc.batch[cyc.idx], cyc.idx,
                      [maxSeq |-> cyc.maxSeq, chatMessages |-> cyc.chatMessages,
                       links |-> cyc.links],
                      cyc.agentID, cyc.chatID)
       IN cyc' = [cyc EXCEPT !.idx = IF cyc.batch[cyc.idx].stage \in {"baddecrypt", "badjson"}
                                     THEN Len(cyc.batch) + 1 ELSE @ + 1,
                             !.maxSeq = acc.maxSeq,
                             !.chatMessages = acc.chatMessages,
                             !.links = acc.links]
    /\ UNCHANGED <<hubVars, sideVars>>

\* one iteration of the loop over chatdata
CycEntry ==
    /\ cyc.stage = "loop" /\ cyc.idx <= Len(cyc.batch)
    /\ LET acc == ProcessEntry(cyc.batch[cyc.idx], cyc.idx,
                      [maxSeq |-> cyc.maxSeq, chatMessages |-> cyc.chatMessages,
                       links |-> cyc.links],
                      cyc.agentID, cyc.chatID)
       IN cyc' = [cyc EXCEPT !.idx = @ + 1, !.maxSeq = acc.maxSeq,
                             !.chatMessages = acc.chatMessages,
                             !.links = acc.links]
    /\ UNCHANGED <<hubVars, sideVars>>

\* the conversations of chatMessages
Groups(kept) == {kept[k][1] : k \in DOMAIN kept}

\* the messages kept for conversation cid, in batch order
GroupOf(kept, cid) ==
    LET F[k \in 0..Len(kept)] ==
          IF k = 0 THEN <<>>
          ELSE IF kept[k][1] = cid THEN Append(F[k-1], kept[k][2]) ELSE F[k-1]
    IN F[Len(kept)]

\* go func(cid, msgs) for every conversation of chatMessages
CycDispatch ==
    /\ cyc.stage = "loop" /\ cyc.idx > Len(cyc.batch)
    /\ LET groups == {<<cid, GroupOf(cyc.chatMessages, cid)>> :
                        cid \in Groups(cyc.chatMessages)}
       IN cyc' = [cyc EXCEPT !.stage = "assist", !.dispatched = groups,
                             !.pending = groups]
    /\ UNCHANGED <<hubVars, sideVars>>

\* the connection whose poll cycle is followed
CycConn == CHOOSE c \in Conns : TRUE

\* one dispatch goroutine: handleAIAssistanceRequest calls callAgentAPI and
\* pushes its reply with SendMessage; `nanos` is the clock reading
CycAssist(g, answered, nanos) ==
    LET c == CycConn
        reply == AssistanceReply(answered, nanos)
        outcome == SendOutcome(Send[c], sendClosed[c])
    IN
    /\ Running /\ cyc.stage = "assist" /\ g \in cyc.pending
    /\ IF reply # <<>> /\ outcome = "panic"
       THEN Panic("send on closed channel", "handleAIAssistanceRequest")
       ELSE /\ Send' = IF reply # <<>> THEN Enqueue(c, reply[1]) ELSE Send
            /\ cyc' = [cyc EXCEPT
                         !.pending = @ \ {g},
                         !.calls = @ + 1,
                         !.answers = IF answered THEN @ + 1 ELSE @,
                         !.dropped = IF reply # <<>> /\ outcome = "ErrSendBufferFull"
                                     THEN @ + 1 ELSE @,
                         !.pushed = IF reply # <<>> /\ outcome = "ok"
                                    THEN @ \o reply ELSE @]
            /\ UNCHANGED <<Clients, AgentID, sendClosed, pollSeq, pollTicker,
                           pollStop, pollInterval, pollIntervalCh, weworkSDK,
                           sdk, pc, maxSeq, rp, manual, crash, crashAt,
                           sideVars>>

\* CycCommit without wg.Wait(): the cursor is written while dispatches run
CycCommit_NoWait ==
    /\ cyc.stage = "assist"
    /\ cyc' = [cyc EXCEPT !.stage = "done", !.cursor = cyc.maxSeq,
                          !.committed = TRUE]
    /\ UNCHANGED <<hubVars, sideVars>>

\* wg.Wait() returns; c.pollSeq = maxSeq
CycCommit ==
    /\ cyc.stage = "assist" /\ cyc.pending = {}
    /\ cyc' = [cyc EXCEPT !.stage = "done", !.cursor = cyc.maxSeq,
                          !.committed = TRUE]
    /\ UNCHANGED <<hubVars, sideVars>>

NextCycle ==
    \/ CycFetchNothing
    \/ /\ cyc.stage = "fetch"
       /\ \E batch \in Batches(cyc.seq, EntryTemplates) : CycFetch(batch)
    \/ CycEntry
    \/ CycDispatch
    \/ \E g \in cyc.pending, answered \in BOOLEAN, nanos \in 1..MaxNanos :
          CycAssist(g, answered, nanos)
    \/ CycCommit
    \/ GetPollInterval(CycConn)
    \/ WritePump(CycConn)

SpecCycle == InitCycle /\ [][NextCycle]_vars

(***************************************************************************)
(* The poll interval of one session: set_poll_interval and                 *)
(* get_poll_interval frames against the poller loop.                       *)
(***************************************************************************)
\* the "interval" values of the frames, in half seconds: -1.5, 0, 0.5, 1,
\* 1.5, 10, 3600, 3600.5 and 3601 seconds
IntervalRequests == {0 - 3, 0, 1, 2, 3, 20, 2 * MaxInterval, 2 * MaxInterval + 1,
                     2 * MaxInterval + 2}

NextInterval ==
    \/ \E c \in Conns : AuthFrame(c, "a1")
    \/ \E c \in Conns : Register(c)
    \/ \E c \in Conns : Unregister(c)
    \/ \E c \in Conns, halves \in IntervalRequests : SetPollInterval(c, halves)
    \/ \E c \in Conns : SetPollIntervalMalformed(c)
    \/ \E c \in Conns : GetPollInterval(c)
    \/ \E c \in Conns : WritePump(c)
    \/ \E c \in Conns, i \in Pollers : StartOK(c, i)
    \/ \E c \in Conns, i \in Pollers : PollFetch(c, i, <<>>)
    \/ \E c \in Conns, i \in Pollers : SelectEnter(c, i)
    \/ \E c \in Conns, i \in Pollers : Tick(c, i)
    \/ \E c \in Conns, i \in Pollers : IntervalChange(c, i)
    \/ \E c \in Conns, i \in Pollers : StopCase(c, i)

SpecInterval == Init /\ [][NextInterval]_vars

(***************************************************************************)
(* Start and stop of the pollers of a session, with empty fetches.         *)
(***************************************************************************)
NextStart ==
    \/ \E c \in Conns : AuthFrame(c, "a1")
    \/ \E c \in Conns : Register(c)
    \/ \E c \in Conns : Unregister(c)
    \/ \E c \in Conns, i \in Pollers : StartFail(c, i)
    \/ \E c \in Conns, i \in Pollers : StartOK(c, i)
    \/ \E c \in Conns, i \in Pollers : PollFetch(c, i, <<>>)
    \/ \E c \in Conns, i \in Pollers : SelectEnter(c, i)
    \/ \E c \in Conns, i \in Pollers : Tick(c, i)
    \/ \E c \in Conns, i \in Pollers : StopCase(c, i)

SpecStart == Init /\ [][NextStart]_vars

(***************************************************************************)
(* The credential cache: getAccessToken and getJSAPITicket.                *)
(***************************************************************************)
\* the slot getJSAPITicket / getAccessToken reads and writes for a request
SlotOf(op) ==
    IF op = "token" THEN "accessToken"
    ELSE IF op = "agent_config" THEN "jsapiTicket"
    ELSE "agentJSAPITicket"

\* CacheHit with the comparison of the expiry reversed
CacheHit_After(entry, t) == entry.value # NoValue /\ t > entry.expireAt

\* tokenCache.x != "" && time.Now().Before(tokenCache.xExpireAt)
CacheHit(entry, t) == entry.value # NoValue /\ t < entry.expireAt

\* expiresIn after `if expiresIn <= 0 { expiresIn = 7200 }`
EffectiveTTL(ttl) == IF ttl <= 0 THEN DefaultTTL ELSE ttl

\* EarlyExpire without the 60 second floor
EarlyExpire_NoFloor(expiresIn) == expiresIn \div 10

\* earlyExpire := expiresIn / 10; if earlyExpire < 60 { earlyExpire = 60 }
EarlyExpire(expiresIn) ==
    IF expiresIn \div 10 < MinEarlyExpire THEN MinEarlyExpire ELSE expiresIn \div 10

\* time.Now().Add(time.Duration(expiresIn-earlyExpire) * time.Second)
ExpireAt(t, ttl) ==
    t + (EffectiveTTL(ttl) - EarlyExpire(EffectiveTTL(ttl)))

TokStep(t) == tok' = t /\ UNCHANGED <<hubVars, cyc, lnk, sim, store, mu, fb, asst, reg>>

\* a goroutine calls getAccessToken (op = "token") or getJSAPITicket
CacheCall(p, op) ==
    /\ tok.callers[p].pc = "idle"
    /\ TokStep([tok EXCEPT !.callers[p] = [IdleCaller EXCEPT !.pc = "check", !.op = op]])

\* the read-locked check of the slot of the request: the cached value is
\* returned, or the caller goes on to the identity endpoint (getJSAPITicket
\* first calls getAccessToken)
CacheCheck(p) ==
    LET cl == tok.callers[p]
        entry == tok.cache[SlotOf(cl.op)]
    IN
    /\ cl.pc = "check"
    /\ TokStep([tok EXCEPT !.callers[p] =
          IF CacheHit(entry, tok.now)
          THEN [cl EXCEPT !.pc = "done", !.ret = entry.value, !.hit = TRUE]
          ELSE IF cl.op = "token"
          THEN [cl EXCEPT !.pc = "get", !.slot = "accessToken"]
          ELSE [cl EXCEPT !.pc = "tokencheck"]])

\* getAccessToken called by getJSAPITicket: its read-locked check
CacheTokenCheck(p) ==
    LET cl == tok.callers[p]
        entry == tok.cache["accessToken"]
    IN
    /\ cl.pc = "tokencheck"
    /\ TokStep([tok EXCEPT !.callers[p] =
          IF CacheHit(entry, tok.now)
          THEN [cl EXCEPT !.pc = "get", !.slot = SlotOf(cl.op)]
          ELSE [cl EXCEPT !.pc = "get", !.slot = "accessToken"]])

\* http.Get on the identity endpoint: it fails (network, body, JSON,
\* errcode != 0) and the call returns the error, or the endpoint issues a
\* value now with expires_in = ttl
CacheFetch(p, ok, ttl) ==
    LET cl == tok.callers[p] IN
    /\ cl.pc = "get"
    /\ IF ok
       THEN /\ tok.issued < MaxIssues
            /\ TokStep([tok EXCEPT
                  !.issued = @ + 1,
                  !.callers[p] = [cl EXCEPT !.pc = "store",
                       !.resp = [n |-> tok.issued + 1, ttl |-> ttl, at |-> tok.now]]])
       ELSE TokStep([tok EXCEPT !.callers[p] = [cl EXCEPT !.pc = "done"]])

\* the response has been read: the expiry is computed from time.Now() and
\* value and expiry are written under the write lock
CacheStore(p) ==
    LET cl == tok.callers[p] IN
    /\ cl.pc = "store"
    /\ TokStep([tok EXCEPT
          !.cache[cl.slot] = [value |-> cl.resp.n,
                              expireAt |-> ExpireAt(tok.now, cl.resp.ttl),
                              at |-> cl.resp.at, ttl |-> cl.resp.ttl],
          !.callers[p] =
              IF cl.slot = "accessToken" /\ cl.op # "token"
              THEN [cl EXCEPT !.pc = "get", !.slot = SlotOf(cl.op), !.resp = NoResp]
              ELSE [cl EXCEPT !.pc = "done", !.ret = cl.resp.n, !.resp = NoResp]])

\* the call has returned
CacheReturn(p) ==
    /\ tok.callers[p].pc = "done"
    /\ TokStep([tok EXCEPT !.callers[p] = IdleCaller])

\* time passes
CacheTick(t) ==
    /\ t > tok.now
    /\ TokStep([tok EXCEPT !.now = t])

NextCache ==
    \/ \E p \in Callers, op \in CacheOps : CacheCall(p, op)
    \/ \E p \in Callers : CacheCheck(p)
    \/ \E p \in Callers : CacheTokenCheck(p)
    \/ \E p \in Callers, ok \in BOOLEAN, ttl \in TTLs : CacheFetch(p, ok, ttl)
    \/ \E p \in Callers : CacheStore(p)
    \/ \E p \in Callers : CacheReturn(p)
    \/ \E t \in Times : CacheTick(t)

SpecCache == Init /\ [][NextCache]_vars

\* one successful refresh seen from the moment its response has been read:
\* the response carries any expires_in of the range, for any slot, at any
\* instant
InitExpiry ==
    /\ InitHub /\ cyc = NoCycle /\ lnk = NoLink /\ sim = NoSim /\ store = NoStore /\ mu = NoMu /\ fb = NoFrames /\ asst = NoAsst /\ reg = NoReg
    /\ tok \in {[NoCache EXCEPT
                    !.now = t,
                    !.issued = 1,
                    !.callers[1] = [IdleCaller EXCEPT
                        !.pc = "store", !.op = op, !.slot = SlotOf(op),
                        !.resp = [n |-> 1, ttl |-> ttl, at |-> t]]] :
                 t \in Times, op \in Ops, ttl \in (0 - 2)..MaxTTL}

NextExpiry ==
    \/ CacheStore(1)
    \/ CacheReturn(1)
    \/ \E t \in Times : CacheTick(t)

SpecExpiry == InitExpiry /\ [][NextExpiry]_vars

(***************************************************************************)
(* The similarity matcher: linkSuggestionToMessage,                        *)
(* findSuggestionsByContent and updateSuggestionMsgID.                     *)
(***************************************************************************)
\* a Suggestion row as one message sees it.  inScope: agent_id, chat_id
\* match and created_at < msgTime.  rel tells how the contents of the row
\* relate to the content of the message: "original" (OriginalContent ==
\* content), "edited" (EditedContent == content), "other"; hasOriginal:
\* OriginalContent != ""; cosine: what calculateCosineSimilarity returns
\* for the pair of texts the code compares
Row(inScope, createdAt, rel, hasOriginal, cosine) ==
    [inScope |-> inScope, createdAt |-> createdAt, rel |-> rel,
     hasOriginal |-> hasOriginal, cosine |-> cosine, msgID |-> "",
     similarity |-> 0]

RowShapes ==
    {Row(sc, ca, "original", TRUE, 100) : sc \in BOOLEAN, ca \in CreatedAts}
        \cup {Row(TRUE, ca, "edited", TRUE, cs) : ca \in CreatedAts, cs \in {79, 92}}
        \cup {Row(TRUE, ca, "edited", FALSE, 0) : ca \in CreatedAts}
        \cup {Row(TRUE, ca, "other", TRUE, cs) : ca \in CreatedAts, cs \in Cosines}
        \cup {Row(TRUE, ca, "other", FALSE, 0) : ca \in CreatedAts}

\* db.Where(...).Order("created_at DESC").Limit(limit * 2): the sets of
\* rows the query may return (rows of equal created_at come in any order)
QueryResults(rows, limit) ==
    LET scope == {i \in DOMAIN rows : rows[i].inScope}
        n == IF Cardinality(scope) < 2 * limit THEN Cardinality(scope) ELSE 2 * limit
    IN {S \in SUBSET scope :
          /\ Cardinality(S) = n
          /\ \A i \in S, j \in scope \ S : rows[i].createdAt >= rows[j].createdAt}

\* the branch of the loop of findSuggestionsByContent a row takes
MatchType(row) ==
    IF row.rel = "original" THEN "exact_original"
    ELSE IF row.rel = "edited" THEN "exact_edited"
    ELSE IF row.hasOriginal THEN "similar"
    ELSE "skip"

\* the similarity the loop computes for a row
Similarity(row) ==
    IF row.rel = "original" THEN 100
    ELSE IF row.rel = "edited"
    THEN (IF row.hasOriginal THEN row.cosine ELSE 100)
    ELSE row.cosine

\* Keep with a message equal to editedContent always accepted
Keep_ExactEditedAlways(similarity, matchType, threshold) ==
    matchType = "exact_edited" \/ similarity >= threshold

\* if similarity >= similarityThreshold
Keep(similarity, matchType, threshold) == similarity >= threshold

\* matchedSuggestions before the sort
Matched(rows, found, threshold) ==
    {[id |-> i, similarity |-> Similarity(rows[i]), matchType |-> MatchType(rows[i]),
      createdAt |-> rows[i].createdAt] :
       i \in {j \in found : /\ MatchType(rows[j]) # "skip"
                             /\ Keep(Similarity(rows[j]), MatchType(rows[j]), threshold)}}

\* Less with ties broken by the older row first
Less_OldestFirst(a, b) ==
    IF a.similarity # b.similarity
    THEN a.similarity > b.similarity
    ELSE a.createdAt < b.createdAt

\* the less function handed to sort.Slice
Less(a, b) ==
    IF a.similarity # b.similarity
    THEN a.similarity > b.similarity
    ELSE a.createdAt > b.createdAt

\* the elements sort.Slice may leave at index 0
Firsts(matched) == {a \in matched : \A b \in matched : ~Less(b, a)}

LinkStep(l) == lnk' = l /\ UNCHANGED <<hubVars, cyc, tok, sim, store, mu, fb, asst, reg>>

\* a linkSuggestionToMessage call starts on a table of up to MaxRows rows
InitLink ==
    /\ InitHub /\ cyc = NoCycle /\ tok = NoCache /\ sim = NoSim /\ store = NoStore /\ mu = NoMu /\ fb = NoFrames /\ asst = NoAsst /\ reg = NoReg
    /\ lnk \in {[NoLink EXCEPT !.stage = "query", !.threshold = th, !.rows = rows] :
                 th \in Thresholds,
                 rows \in UNION {[1..n -> RowShapes] : n \in 1..MaxRows}}

\* query.Find fails: the error is logged and the call returns
LinkFindError ==
    /\ lnk.stage = "query"
    /\ LinkStep([lnk EXCEPT !.stage = "done"])

\* query.Find returns the rows
LinkFind(S) ==
    /\ lnk.stage = "query"
    /\ S \in QueryResults(lnk.rows, QueryLimit)
    /\ LinkStep([lnk EXCEPT !.stage = "score", !.found = S])

\* the loop over the rows and the sort; linkSuggestionToMessage returns
\* when nothing matched and takes suggestions[0] otherwise
LinkScore(first) ==
    LET matched == Matched(lnk.rows, lnk.found, lnk.threshold) IN
    /\ lnk.stage = "score"
    /\ IF matched = {}
       THEN /\ first = 0
            /\ LinkStep([lnk EXCEPT !.stage = "done"])
       ELSE /\ first \in {a.id : a \in Firsts(matched)}
            /\ LinkStep([lnk EXCEPT !.stage = "update", !.matched = matched,
                                     !.selected = first])

\* updateSuggestionMsgID(suggestion.SuggestionID, msgID, suggestion.Similarity)
LinkUpdate(ok) ==
    /\ lnk.stage = "update"
    /\ LinkStep([lnk EXCEPT
          !.stage = "done",
          !.rows = IF ok
                   THEN [@ EXCEPT ![lnk.selected] =
                           [@ EXCEPT !.msgID = "m",
                                     !.similarity = Similarity(lnk.rows[lnk.selected])]]
                   ELSE @])

NextLink ==
    \/ LinkFindError
    \/ \E S \in SUBSET DOMAIN lnk.rows : LinkFind(S)
    \/ \E first \in 0..MaxRows : LinkScore(first)
    \/ \E ok \in BOOLEAN : LinkUpdate(ok)

SpecLink == InitLink /\ [][NextLink]_vars

(***************************************************************************)
(* Text similarity: tokenize, calculateCosineSimilarity and the scoring    *)
(* branch of the loop of findSuggestionsByContent, on texts given as       *)
(* sequences of characters.                                                *)
(***************************************************************************)
\* unicode.IsLetter(r) || unicode.IsDigit(r)
IsLetterOrDigit(ch) == ch # " "

\* unicode.ToLower(r)
ToLower(ch) == IF ch = "B" THEN "b" ELSE ch

\* the words the loop of tokenize closes, in order; cur is currentWord
RECURSIVE Words(_, _)
Words(text, cur) ==
    IF text = <<>>
    THEN (IF cur # <<>> THEN <<cur>> ELSE <<>>)
    ELSE IF IsLetterOrDigit(Head(text))
    THEN Words(Tail(text), Append(cur, ToLower(Head(text))))
    ELSE (IF cur # <<>> THEN <<cur>> ELSE <<>>) \o Words(Tail(text), <<>>)

\* tokenize: the frequency of every word longer than one character
tokenize(text) ==
    LET ws == SelectSeq(Words(text, <<>>), LAMBDA w : Len(w) > 1)
    IN [w \in {ws[i] : i \in DOMAIN ws} |-> Cardinality({i \in DOMAIN ws : ws[i] = w})]

\* words[word] of a Go map: 0 for a missing key
Freq(words, word) == IF word \in DOMAIN words THEN words[word] ELSE 0

RECURSIVE SumOver(_, _, _)
SumOver(S, w1, w2) ==
    IF S = {} THEN 0
    ELSE LET x == CHOOSE y \in S : TRUE
         IN Freq(w1, x) * Freq(w2, x) + SumOver(S \ {x}, w1, w2)

\* calculateCosineSimilarity without the test for equal texts
calculateCosineSimilarity_NoShortCircuit(text1, text2) ==
    IF text1 = <<>> \/ text2 = <<>> THEN Zero
    ELSE LET words1 == tokenize(text1)
             words2 == tokenize(text2)
             allWords == DOMAIN words1 \cup DOMAIN words2
             dotProduct == SumOver(allWords, words1, words2)
             magnitude1 == SumOver(allWords, words1, words1)
             magnitude2 == SumOver(allWords, words2, words2)
         IN IF magnitude1 = 0 \/ magnitude2 = 0 THEN Zero
            ELSE [num |-> 100 * 100 * dotProduct * dotProduct,
                  den |-> magnitude1 * magnitude2]

\* calculateCosineSimilarity: 0 for an empty text, 100 for equal texts,
\* otherwise 100 * dot / (sqrt(magnitude1) * sqrt(magnitude2)), kept here as
\* the exact square (the float64 result is that value rounded)
calculateCosineSimilarity(text1, text2) ==
    IF text1 = <<>> \/ text2 = <<>> THEN Zero
    ELSE IF text1 = text2 THEN Hundred
    ELSE LET words1 == tokenize(text1)
             words2 == tokenize(text2)
             allWords == DOMAIN words1 \cup DOMAIN words2
             dotProduct == SumOver(allWords, words1, words2)
             magnitude1 == SumOver(allWords, words1, words1)
             magnitude2 == SumOver(allWords, words2, words2)
         IN IF magnitude1 = 0 \/ magnitude2 = 0 THEN Zero
            ELSE [num |-> 100 * 100 * dotProduct * dotProduct,
                  den |-> magnitude1 * magnitude2]

\* ScoreRow with the test against EditedContent made first
ScoreRow_EditedFirst(content, original, edited) ==
    IF edited = content
    THEN [matchType |-> "exact_edited",
          similarity |-> IF original # <<>>
                         THEN calculateCosineSimilarity(edited, original)
                         ELSE Hundred]
    ELSE IF original = content
    THEN [matchType |-> "exact_original", similarity |-> Hundred]
    ELSE IF original # <<>>
    THEN [matchType |-> "similar",
          similarity |-> calculateCosineSimilarity(content, original)]
    ELSE [matchType |-> "skip", similarity |-> Zero]

\* the three branches of the loop of findSuggestionsByContent for one row
\* ("skip": the continue of a row without OriginalContent)
ScoreRow(content, original, edited) ==
    IF original = content
    THEN [matchType |-> "exact_original", similarity |-> Hundred]
    ELSE IF edited = content
    THEN [matchType |-> "exact_edited",
          similarity |-> IF original # <<>>
                         THEN calculateCosineSimilarity(edited, original)
                         ELSE Hundred]
    ELSE IF original # <<>>
    THEN [matchType |-> "similar",
          similarity |-> calculateCosineSimilarity(content, original)]
    ELSE [matchType |-> "skip", similarity |-> Zero]

SimStep(m) == sim' = m /\ UNCHANGED <<hubVars, cyc, tok, lnk, store, mu, fb, asst, reg>>

\* a message text and the two texts of one Suggestion row
InitSim ==
    /\ InitHub /\ cyc = NoCycle /\ tok = NoCache /\ lnk = NoLink /\ store = NoStore /\ mu = NoMu /\ fb = NoFrames /\ asst = NoAsst /\ reg = NoReg
    /\ sim \in {[NoSim EXCEPT !.stage = "call", !.content = c, !.original = o,
                               !.edited = e] : c \in Texts, o \in Texts, e \in Texts}

\* calculateCosineSimilarity(content, sug.OriginalContent) is evaluated
SimCosine ==
    /\ sim.stage = "call"
    /\ SimStep([sim EXCEPT !.stage = "cosine",
                           !.similarity = calculateCosineSimilarity(sim.content, sim.original)])

\* the loop of findSuggestionsByContent scores the row
SimScore ==
    LET r == ScoreRow(sim.content, sim.original, sim.edited) IN
    /\ sim.stage = "call"
    /\ SimStep([sim EXCEPT !.stage = "row", !.matchType = r.matchType,
                           !.similarity = r.similarity])

NextSim == SimCosine \/ SimScore

SpecSim == InitSim /\ [][NextSim]_vars

(***************************************************************************)
(* The Suggestion table over several messages: rows are inserted by        *)
(* createSuggestion, rewritten by updateSuggestionFeedback and linked by   *)
(* the linkSuggestionToMessage goroutines that pollChatMessages starts for *)
(* every message of the agent, each time the message is fetched.  The      *)
(* messages carry the same text, to which rel and cosine of a row refer.   *)
(***************************************************************************)
\* what an ai_feedback frame makes of a row: the agent sent the suggestion
\* edited (the edited text is the message), or reports texts that are
\* neither the message
FeedbackShapes ==
    {Row(TRUE, 1, "edited", TRUE, cs) : cs \in {79, 92}}
        \cup {Row(TRUE, 1, "other", TRUE, 92)}

StoreStep(st) == store' = st /\ UNCHANGED <<hubVars, cyc, tok, lnk, sim, mu, fb, asst, reg>>

InitStore ==
    /\ InitHub /\ cyc = NoCycle /\ tok = NoCache /\ lnk = NoLink /\ sim = NoSim /\ mu = NoMu /\ fb = NoFrames /\ asst = NoAsst /\ reg = NoReg
    /\ store \in {[NoStore EXCEPT !.threshold = th] : th \in Thresholds}

\* time passes
StoreTick ==
    /\ store.now < MaxClock
    /\ StoreStep([store EXCEPT !.now = @ + 1])

\* createSuggestion(suggestionID, c.AgentID, c.ChatID, "", suggestionText,
\* confidence): a row with an empty msg_id whose original text is the
\* suggestion, which the agent may later send as it is or changed
StoreCreate(rel, cosine) ==
    /\ Len(store.rows) < MaxStoreRows
    /\ rel \in {"original", "other"}
    /\ cosine \in (IF rel = "original" THEN {100} ELSE Cosines)
    /\ StoreStep([store EXCEPT
          !.rows = Append(@, Row(TRUE, store.now, rel, TRUE, cosine))])

\* updateSuggestionFeedback(suggestionID, action, originalContent,
\* editedContent): the two texts of the row are replaced, msg_id is kept
StoreFeedback(i, shape) ==
    /\ i \in DOMAIN store.rows
    /\ shape \in FeedbackShapes
    /\ StoreStep([store EXCEPT
          !.rows[i] = [@ EXCEPT !.rel = shape.rel, !.hasOriginal = shape.hasOriginal,
                                !.cosine = shape.cosine]])

\* pollChatMessages meets a message of the agent and starts
\* go c.linkSuggestionToMessage(c.AgentID, chatID, msgID, contentStr, msgTime);
\* msgTime is the msgtime field of the entry, or time.Now() without one
StoreLinkStart(k, m, hasTime) ==
    /\ store.calls[k].stage = "idle"
    /\ StoreStep([store EXCEPT
          !.calls[k] = [IdleLink EXCEPT
                          !.stage = "query", !.msgID = m,
                          !.msgTime = IF hasTime THEN MsgTimes[m] ELSE store.now]])

DoneLink == [IdleLink EXCEPT !.stage = "done"]

\* a query that also returns the rows created at the cutoff
RowsBefore_AtCutoff(rows, beforeTime) ==
    [i \in DOMAIN rows |-> [rows[i] EXCEPT !.inScope = rows[i].createdAt <= beforeTime]]

\* the rows as the query of one call sees them: created_at < beforeTime
RowsBefore(rows, beforeTime) ==
    [i \in DOMAIN rows |-> [rows[i] EXCEPT !.inScope = rows[i].createdAt < beforeTime]]

\* findSuggestionsByContent fails: the call returns
StoreLinkFindError(k) ==
    /\ store.calls[k].stage = "query"
    /\ StoreStep([store EXCEPT !.calls[k] = DoneLink])

\* findSuggestionsByContent returns; the call ends when nothing matched and
\* goes on with suggestions[0] otherwise
StoreLinkFind(k, S, first) ==
    LET view == RowsBefore(store.rows, store.calls[k].msgTime)
        matched == Matched(view, S, store.threshold)
    IN /\ store.calls[k].stage = "query"
       /\ S \in QueryResults(view, QueryLimit)
       /\ IF matched = {}
          THEN /\ first = 0
               /\ StoreStep([store EXCEPT !.calls[k] = DoneLink])
          ELSE /\ first \in {a.id : a \in Firsts(matched)}
               /\ StoreStep([store EXCEPT
                     !.calls[k].stage = "update", !.calls[k].selected = first,
                     !.calls[k].similarity = Similarity(view[first])])

\* updateSuggestionMsgID(suggestion.SuggestionID, msgID, suggestion.Similarity):
\* the one row of that suggestion_id gets msg_id and similarity
StoreLinkUpdate(k, ok) ==
    LET call == store.calls[k] IN
    /\ call.stage = "update"
    /\ StoreStep([store EXCEPT
          !.calls[k] = DoneLink,
          !.rows = IF ok
                   THEN [@ EXCEPT ![call.selected] =
                           [@ EXCEPT !.msgID = call.msgID,
                                     !.similarity = call.similarity]]
                   ELSE @])

NextStore ==
    \/ StoreTick
    \/ \E rel \in {"original", "other"}, cosine \in Cosines \cup {100} :
          StoreCreate(rel, cosine)
    \/ \E i \in 1..MaxStoreRows, shape \in FeedbackShapes : StoreFeedback(i, shape)
    \/ \E k \in LinkCalls, m \in MsgIDs, hasTime \in BOOLEAN : StoreLinkStart(k, m, hasTime)
    \/ \E k \in LinkCalls : StoreLinkFindError(k)
    \/ \E k \in LinkCalls, S \in SUBSET (1..MaxStoreRows), first \in 0..MaxStoreRows :
          StoreLinkFind(k, S, first)
    \/ \E k \in LinkCalls, ok \in BOOLEAN : StoreLinkUpdate(k, ok)

SpecStore == InitStore /\ [][NextStore]_vars

(***************************************************************************)
(* c.mu: the statements of readPump (handleMessage and its handlers), of   *)
(* the hub's Run (with stopPolling) and of startPolling (with              *)
(* pollChatMessages) that read or write fields of one WeComClient.  A row  *)
(* names what the statement does to c.mu ("lock": c.mu.Lock(); "unlock":   *)
(* the statements up to and with c.mu.Unlock(); "none": c.mu not touched), *)
(* the fields it reads ("r") or writes ("w"), the statements that may      *)
(* follow and the hand-over it performs.                                   *)
(***************************************************************************)
Stmt(lock, acc, next, sync) == [lock |-> lock, acc |-> acc, next |-> next, sync |-> sync]

\* readPump: handleMessage, handleSetPollInterval, handleGetPollInterval
ReadPumpStmts ==
    [read     |-> Stmt("none", {}, {"auth", "setLock", "getLock", "exit"}, ""),
     auth     |-> Stmt("none", {<<"AgentID", "w">>, <<"ChatID", "w">>}, {"register"}, ""),
     register |-> Stmt("none", {}, {"read"}, "Register"),
     setLock  |-> Stmt("lock", {}, {"setCS"}, ""),
     setCS    |-> Stmt("unlock", {<<"weworkSDK", "r">>}, {"cfgLock", "setSend"}, ""),
     cfgLock  |-> Stmt("lock", {}, {"cfgCS"}, ""),
     cfgCS    |-> Stmt("unlock", {<<"pollInterval", "w">>}, {"read"}, ""),
     setSend  |-> Stmt("none", {<<"AgentID", "r">>}, {"read"}, ""),
     getLock  |-> Stmt("lock", {}, {"getCS"}, ""),
     getCS    |-> Stmt("unlock", {<<"pollInterval", "r">>, <<"weworkSDK", "r">>}, {"read"}, ""),
     exit     |-> Stmt("none", {}, {"exited"}, "Unregister"),
     exited   |-> Stmt("none", {}, {}, "")]

\* WeComHub.Run for this client, with stopPolling
RunStmts ==
    [idle         |-> Stmt("none", {}, {}, ""),
     registered   |-> Stmt("none", {<<"AgentID", "r">>}, {"idle"}, "spawn"),
     unregistered |-> Stmt("none", {<<"AgentID", "r">>}, {"stopLock"}, ""),
     stopLock     |-> Stmt("lock", {}, {"stopCS"}, ""),
     stopCS       |-> Stmt("unlock", {<<"pollTicker", "r">>, <<"pollTicker", "w">>}, {"closeStop"}, ""),
     closeStop    |-> Stmt("none", {}, {"idle"}, "close")]

\* startPolling with pollChatMessages
StartPollingStmts ==
    [none       |-> Stmt("none", {}, {}, ""),
     start      |-> Stmt("none", {<<"AgentID", "r">>}, {"startLock", "stopped"}, ""),
     startLock  |-> Stmt("lock", {}, {"startCS"}, ""),
     startCS    |-> Stmt("unlock", {<<"weworkSDK", "w">>, <<"pollTicker", "w">>,
                                    <<"pollInterval", "r">>}, {"cycleLock"}, ""),
     cycleLock  |-> Stmt("lock", {}, {"cycleCS"}, ""),
     cycleCS    |-> Stmt("unlock", {<<"weworkSDK", "r">>, <<"pollSeq", "r">>},
                         {"cycleBody", "select"}, ""),
     cycleBody  |-> Stmt("none", {<<"AgentID", "r">>, <<"ChatID", "r">>}, {"commitLock"}, ""),
     commitLock |-> Stmt("lock", {}, {"commitCS"}, ""),
     commitCS   |-> Stmt("unlock", {<<"pollSeq", "w">>}, {"select"}, ""),
     select     |-> Stmt("none", {<<"pollTicker", "r">>}, {"cycleLock", "ivLock", "endLock"}, ""),
     ivLock     |-> Stmt("lock", {}, {"ivCS"}, ""),
     ivCS       |-> Stmt("unlock", {<<"pollTicker", "r">>, <<"pollTicker", "w">>,
                                    <<"pollInterval", "w">>}, {"select"}, ""),
     endLock    |-> Stmt("lock", {}, {"endCS"}, ""),
     endCS      |-> Stmt("unlock", {<<"weworkSDK", "r">>, <<"weworkSDK", "w">>,
                                    <<"pollTicker", "r">>, <<"pollTicker", "w">>},
                         {"stopped"}, ""),
     stopped    |-> Stmt("none", {}, {}, "")]

\* the statement a goroutine is at
StmtAt(t, at) ==
    IF t = "readPump" THEN ReadPumpStmts[at]
    ELSE IF t = "Run" THEN RunStmts[at]
    ELSE StartPollingStmts[at]

\* goroutine t executes the statement it is at and goes on to statement n.
\* hub.Register <- c and hub.Unregister <- c are received by an idle Run;
\* go client.startPolling() starts the poller; close(c.pollStop) makes
\* case <-c.pollStop ready
MuStep(t, n) ==
    LET st == StmtAt(t, mu.pc[t])
        moved == [mu.pc EXCEPT ![t] = n]
    IN /\ n \in st.next
       /\ st.lock = "lock" => mu.holder = ""
       /\ n = "endLock" => mu.stop
       /\ st.sync \in {"Register", "Unregister"} => mu.pc["Run"] = "idle"
       /\ mu' = [holder |-> IF st.lock = "lock" THEN t
                            ELSE IF st.lock = "unlock" THEN "" ELSE mu.holder,
                 stop |-> mu.stop \/ st.sync = "close",
                 pc |-> IF st.sync = "Register" THEN [moved EXCEPT !["Run"] = "registered"]
                        ELSE IF st.sync = "Unregister"
                        THEN [moved EXCEPT !["Run"] = "unregistered"]
                        ELSE IF st.sync = "spawn" /\ mu.pc["startPolling"] = "none"
                        THEN [moved EXCEPT !["startPolling"] = "start"]
                        ELSE moved]
       /\ UNCHANGED <<hubVars, cyc, tok, lnk, sim, store, fb, asst, reg>>

InitLock ==
    /\ InitHub /\ cyc = NoCycle /\ tok = NoCache /\ lnk = NoLink /\ sim = NoSim /\ fb = NoFrames /\ asst = NoAsst /\ reg = NoReg
    /\ store = NoStore /\ mu = NoMu

NextLock ==
    \E t \in Tasks :
        \E n \in DOMAIN ReadPumpStmts \cup DOMAIN RunStmts \cup DOMAIN StartPollingStmts :
            MuStep(t, n)

SpecLock == InitLock /\ [][NextLock]_vars

(***************************************************************************)
(* The frames of one connection: the client sends them, readPump reads     *)
(* them one by one and hands each to handleMessage.                        *)
(***************************************************************************)
\* a client frame.  type "unparseable" stands for data json.Unmarshal
\* rejects; suggestion_id is the number of the row it names, 0 for "";
\* texts is what the original and edited content of the frame make of the
\* row (a member of FeedbackShapes)
ClientFrame(type, suggestion_id, action, texts) ==
    [type |-> type, suggestion_id |-> suggestion_id, action |-> action,
     texts |-> texts]

NoTexts == Row(TRUE, 1, "other", TRUE, 92)

ClientFrames ==
    {ClientFrame(t, 0, "", NoTexts) :
        t \in {"unparseable", "auth", "get_poll_interval", "pong"}}
      \cup {ClientFrame("ai_feedback", sid, action, texts) :
              sid \in 0..1, action \in {"", "edit"}, texts \in FeedbackShapes}

FramesStep(f) == fb' = f

InitFrames ==
    /\ InitHub /\ cyc = NoCycle /\ tok = NoCache /\ lnk = NoLink /\ sim = NoSim /\ asst = NoAsst /\ reg = NoReg
    /\ store = NoStore /\ mu = NoMu /\ fb = NoFrames

\* the client writes a frame on the connection
ClientSend(f) ==
    /\ Len(fb.inbox) + Len(fb.log) < MaxFrames
    /\ f.type = "auth" =>
          Cardinality({i \in DOMAIN fb.inbox : fb.inbox[i].type = "auth"})
            + Cardinality({i \in DOMAIN fb.log : fb.log[i].type = "auth"}) < MaxPollers
    /\ FramesStep([fb EXCEPT !.inbox = Append(@, f)])
    /\ UNCHANGED <<hubVars, cyc, tok, lnk, sim, store, mu, asst, reg>>

\* handleAIFeedback without the two tests for empty fields
handleAIFeedback_Unchecked(msg) ==
    IF msg.suggestion_id \in DOMAIN store.rows
    THEN [store EXCEPT !.rows[msg.suggestion_id] =
            [@ EXCEPT !.rel = msg.texts.rel,
                      !.hasOriginal = msg.texts.hasOriginal,
                      !.cosine = msg.texts.cosine]]
    ELSE store

\* handleAIFeedback: the Suggestion table after the frame.  A frame with
\* an empty suggestion_id or an empty action returns before
\* updateSuggestionFeedback, which rewrites the texts of the row named
handleAIFeedback(msg) ==
    IF msg.suggestion_id = 0 \/ msg.action = ""
    THEN store
    ELSE IF msg.suggestion_id \in DOMAIN store.rows
    THEN [store EXCEPT !.rows[msg.suggestion_id] =
            [@ EXCEPT !.rel = msg.texts.rel,
                      !.hasOriginal = msg.texts.hasOriginal,
                      !.cosine = msg.texts.cosine]]
    ELSE store

\* handleMessage(data, hub) on connection c
handleMessage(c, msg) ==
    /\ store' = IF msg.type = "ai_feedback" THEN handleAIFeedback(msg) ELSE store
    /\ AgentID' = IF msg.type = "auth" THEN [AgentID EXCEPT ![c] = "a1"] ELSE AgentID
    /\ rp' = IF msg.type = "auth" THEN [rp EXCEPT ![c] = "registering"] ELSE rp
    /\ Send' = IF msg.type = "get_poll_interval"
               THEN Enqueue(c, Frame("poll_interval_info", 2 * pollInterval[c]))
               ELSE Send
    /\ UNCHANGED <<Clients, sendClosed, pollSeq, pollTicker, pollStop,
                   pollInterval, pollIntervalCh, weworkSDK, sdk, pc, maxSeq,
                   manual, crash, crashAt, cyc, tok, lnk, sim, mu, asst, reg>>

\* one turn of the loop of readPump: c.Conn.ReadMessage() returns the next
\* frame and c.handleMessage(message, hub) runs
ReadFrame(c) ==
    /\ Running /\ rp[c] = "reading"
    /\ ~sendClosed[c]      \* Unregister has not run: the reader has not left its loop
    /\ fb.inbox # <<>>
    /\ FramesStep([fb EXCEPT !.inbox = Tail(@), !.log = Append(@, Head(fb.inbox))])
    /\ handleMessage(c, Head(fb.inbox))

\* the connection whose frames are followed
FramesConn == CHOOSE c \in Conns : TRUE

NextFrames ==
    \/ \E f \in ClientFrames : ClientSend(f)
    \/ ReadFrame(FramesConn)
    \/ \E c \in Conns : Register(c)
    \/ \E c \in Conns : Unregister(c)
    \/ \E c \in Conns : WritePump(c)
    \/ StoreCreate("other", 79)

SpecFrames == InitFrames /\ [][NextFrames]_vars

(***************************************************************************)
(* handleAIAssistanceRequest, statement by statement, for the requests of  *)
(* one session that run at the same time (started by ai_assistance_request *)
(* frames or by the dispatch of a poll cycle): the answer of the           *)
(* assistance service, the identifier read from the clock, SendMessage and *)
(* createSuggestion.                                                       *)
(***************************************************************************)
\* asst changes, the table of the matcher and the registry do not
AsstStep(a) ==
    asst' = a /\ UNCHANGED <<cyc, tok, lnk, sim, store, mu, fb, reg>>

AsstHubFrame ==
    UNCHANGED <<Clients, AgentID, sendClosed, pollSeq, pollTicker, pollStop,
                pollInterval, pollIntervalCh, weworkSDK, sdk, pc, maxSeq, rp,
                manual, crash, crashAt>>

InitAsst ==
    /\ InitHub /\ cyc = NoCycle /\ tok = NoCache /\ lnk = NoLink /\ sim = NoSim
    /\ store = NoStore /\ mu = NoMu /\ fb = NoFrames /\ asst = NoAsst /\ reg = NoReg

\* the clock advances by a nanosecond
AsstTick ==
    /\ asst.now < MaxNanos
    /\ AsstStep([asst EXCEPT !.now = @ + 1])
    /\ AsstHubFrame /\ UNCHANGED Send

\* go c.handleAIAssistanceRequest(msg): callAgentAPI is under way
AsstCall(d) ==
    /\ asst.calls[d].stage = "idle"
    /\ AsstStep([asst EXCEPT !.calls[d].stage = "called"])
    /\ AsstHubFrame /\ UNCHANGED Send

\* callAgentAPI returns.  Without an answer or without a text in it the
\* request returns; otherwise
\* suggestionID := fmt.Sprintf("sug_%d", time.Now().UnixNano())
AsstAnswer(d, answered) ==
    /\ asst.calls[d].stage = "called"
    /\ AsstStep([asst EXCEPT
          !.calls[d] = IF AssistanceReply(answered, asst.now) = <<>>
                       THEN [@ EXCEPT !.stage = "done"]
                       ELSE [@ EXCEPT !.stage = "send",
                                      !.id = SuggestionID(asst.now)]])
    /\ AsstHubFrame /\ UNCHANGED Send

\* AsstSend where a failed SendMessage is only logged
AsstSend_InsertAnyway(c, d) ==
    LET call == asst.calls[d]
        outcome == SendOutcome(Send[c], sendClosed[c])
    IN
    /\ Running /\ call.stage = "send" /\ outcome # "panic"
    /\ Send' = Enqueue(c, [Frame("ai_suggestion", 0) EXCEPT !.suggestion_id = call.id])
    /\ AsstStep([asst EXCEPT
          !.calls[d] = [@ EXCEPT !.stage = "insert", !.sent = outcome = "ok"],
          !.events = IF outcome = "ok" THEN Append(@, call.id) ELSE @])
    /\ AsstHubFrame

\* c.SendMessage(assistanceResponse); the request returns when it fails
AsstSend(c, d) ==
    LET call == asst.calls[d]
        outcome == SendOutcome(Send[c], sendClosed[c])
    IN
    /\ Running /\ call.stage = "send" /\ outcome # "panic"
    /\ Send' = Enqueue(c, [Frame("ai_suggestion", 0) EXCEPT !.suggestion_id = call.id])
    /\ AsstStep([asst EXCEPT
          !.calls[d] = IF outcome = "ok"
                       THEN [@ EXCEPT !.stage = "insert", !.sent = TRUE]
                       ELSE [@ EXCEPT !.stage = "done"],
          !.events = IF outcome = "ok" THEN Append(@, call.id) ELSE @])
    /\ AsstHubFrame

\* createSuggestion(suggestionID, ...): the row is inserted unless the
\* database fails or refuses the identifier (suggestion_id has a unique
\* index); the error is only logged
AsstInsert(d, ok) ==
    LET call == asst.calls[d]
        taken == \E i \in DOMAIN asst.rows : asst.rows[i] = call.id
    IN
    /\ call.stage = "insert"
    /\ AsstStep([asst EXCEPT
          !.calls[d] = [@ EXCEPT !.stage = "done"],
          !.rows = IF ok /\ ~taken THEN Append(@, call.id) ELSE @])
    /\ AsstHubFrame /\ UNCHANGED Send


NextAsst ==
    \/ AsstTick
    \/ \E d \in Dispatches : AsstCall(d)
    \/ \E d \in Dispatches, answered \in BOOLEAN : AsstAnswer(d, answered)
    \/ \E c \in Conns, d \in Dispatches : AsstSend(c, d)
    \/ \E d \in Dispatches, ok \in BOOLEAN : AsstInsert(d, ok)
    \/ \E c \in Conns : WritePump(c)

SpecAsst == InitAsst /\ [][NextAsst]_vars

(***************************************************************************)
(* One call of pollChatMessages with the download of voice media followed  *)
(* chunk by chunk (downloadVoiceFile), under the fairness the runtime      *)
(* gives: every call of a collaborator returns, every goroutine that can   *)
(* run does run.                                                           *)
(***************************************************************************)
\* the entry the loop is at is a voice message of the conversation whose
\* media has not been downloaded to the end (a download that fails is the
\* entry with voice = "bad")
MediaPending ==
    /\ cyc.stage = "loop" /\ cyc.idx <= Len(cyc.batch)
    /\ LET e == cyc.batch[cyc.idx] IN
          /\ e.stage = "ok" /\ (e.from = "" \/ e.from = cyc.chatID)
          /\ e.msgtype = "voice" /\ e.voice = "ok"
    /\ ~(cyc.media.idx = cyc.idx /\ cyc.media.isFinish)

\* one turn of `for !isFinish`: sdk.GetMediaData(indexbuf, sdkFileid, ...)
\* returns a chunk; indexbuf = mediaData.OutIndex; isFinish =
\* mediaData.IsFinish
CycMedia(outIndex, isFinish) ==
    /\ MediaPending
    /\ cyc' = [cyc EXCEPT !.media = [idx |-> cyc.idx, indexbuf |-> outIndex,
                                     isFinish |-> isFinish]]
    /\ UNCHANGED <<hubVars, sideVars>>

\* the iteration of the loop over chatdata, after the download it needs
CycEntryAfterMedia == ~MediaPending /\ CycEntry

CycFetchReturns ==
    \/ CycFetchNothing
    \/ /\ cyc.stage = "fetch"
       /\ \E batch \in Batches(cyc.seq, EntryTemplates) : CycFetch(batch)

CycMediaReturns ==
    \E outIndex \in 0..MaxIndex, isFinish \in BOOLEAN : CycMedia(outIndex, isFinish)

CycAssistReturns ==
    \E g \in cyc.pending, answered \in BOOLEAN, nanos \in 1..MaxNanos :
        CycAssist(g, answered, nanos)

NextCycleFair ==
    \/ CycFetchReturns
    \/ CycMediaReturns
    \/ CycEntryAfterMedia
    \/ CycDispatch
    \/ CycAssistReturns
    \/ CycCommit
    \/ WritePump(CycConn)

SpecCycleFair ==
    /\ InitCycle /\ [][NextCycleFair]_vars
    /\ WF_vars(CycFetchReturns) /\ WF_vars(CycMediaReturns)
    /\ WF_vars(CycEntryAfterMedia) /\ WF_vars(CycDispatch)
    /\ WF_vars(CycAssistReturns) /\ WF_vars(CycCommit)

(***************************************************************************)
(* The registry with two connections: auth frames, the Register and        *)
(* Unregister cases of WeComHub.Run, the disconnect of a connection.       *)
(***************************************************************************)
RegStep(r) ==
    reg' = r /\ UNCHANGED <<hubVars, cyc, tok, lnk, sim, store, mu, fb, asst>>

InitReg ==
    /\ InitHub /\ cyc = NoCycle /\ tok = NoCache /\ lnk = NoLink /\ sim = NoSim
    /\ store = NoStore /\ mu = NoMu /\ fb = NoFrames /\ asst = NoAsst /\ reg = NoReg

\* case "auth": c.AgentID = msg.AgentID, then the reader blocks on
\* hub.Register <- c
RegAuth(c, a) ==
    /\ reg.rp[c] = "reading"
    /\ reg.pollers[c] < MaxPollers
    /\ RegStep([reg EXCEPT !.AgentID[c] = a, !.rp[c] = "registering"])

\* case client := <-h.Register: h.Clients[client.AgentID] = client and
\* go client.startPolling()
RegRegister(c) ==
    /\ reg.rp[c] = "registering"
    /\ RegStep([reg EXCEPT !.Clients[reg.AgentID[c]] = c,
                           !.pollers[c] = @ + 1,
                           !.rp[c] = "reading"])

\* readPump's read fails and its deferred hub.Unregister <- c is received:
\* if _, ok := h.Clients[client.AgentID]; ok { delete(h.Clients,
\* client.AgentID); close(client.Send); client.stopPolling() }
RegUnregister(c) ==
    /\ reg.rp[c] = "reading"
    /\ IF reg.AgentID[c] \in Agents /\ reg.Clients[reg.AgentID[c]] # NoClient
       THEN RegStep([reg EXCEPT !.Clients[reg.AgentID[c]] = NoClient,
                                !.sendClosed[c] = TRUE,
                                !.pollStop[c] = TRUE,
                                !.rp[c] = "exited"])
       ELSE RegStep([reg EXCEPT !.rp[c] = "exited"])

NextReg ==
    \/ \E c \in RegConns, a \in Agents : RegAuth(c, a)
    \/ \E c \in RegConns : RegRegister(c)
    \/ \E c \in RegConns : RegUnregister(c)

SpecReg == InitReg /\ [][NextReg]_vars

(***************************************************************************)
(* handleSetPollInterval, critical section by critical section, against    *)
(* the start of the poller.                                                *)
(***************************************************************************)
\* the "interval" values of the frames, in half seconds: 2 and 10 seconds
RaceRequests == {4, 20}

\* handleSetPollInterval up to the end of its first critical section
\* (hasPolling := c.weworkSDK != nil).  With a poller the request goes to
\* pollIntervalCh as in SetPollInterval; without one the handler is about
\* to take the lock again
SetCheck(c, halves) ==
    /\ Running /\ rp[c] = "reading" /\ ~sendClosed[c]
    /\ IF weworkSDK[c] # NilSDK
       THEN SetPollInterval(c, halves)
       ELSE /\ rp' = [rp EXCEPT ![c] = "setting"]
            /\ fb' = [fb EXCEPT !.interval = Seconds(halves)]
            /\ UNCHANGED <<Clients, AgentID, Send, sendClosed, pollSeq, pollTicker,
                           pollStop, pollInterval, pollIntervalCh, weworkSDK, sdk,
                           pc, maxSeq, manual, crash, crashAt, cyc, tok, lnk, sim,
                           store, mu, asst, reg>>

\* the second critical section (c.pollInterval = newInterval) and the
\* poll_interval_updated reply
SetWrite(c) ==
    /\ Running /\ rp[c] = "setting" /\ ~sendClosed[c]
    /\ pollInterval' = [pollInterval EXCEPT ![c] = fb.interval]
    /\ Send' = Enqueue(c, Frame("poll_interval_updated", 2 * fb.interval))
    /\ rp' = [rp EXCEPT ![c] = "reading"]
    /\ fb' = [fb EXCEPT !.interval = 0]
    /\ UNCHANGED <<Clients, AgentID, sendClosed, pollSeq, pollTicker, pollStop,
                   pollIntervalCh, weworkSDK, sdk, pc, maxSeq, manual, crash,
                   crashAt, cyc, tok, lnk, sim, store, mu, asst, reg>>

NextSetRace ==
    \/ \E c \in Conns : AuthFrame(c, "a1")
    \/ \E c \in Conns : Register(c)
    \/ \E c \in Conns, halves \in RaceRequests : SetCheck(c, halves)
    \/ \E c \in Conns : SetWrite(c)
    \/ \E c \in Conns : WritePump(c)
    \/ \E c \in Conns, i \in Pollers : StartOK(c, i)
    \/ \E c \in Conns, i \in Pollers : PollFetch(c, i, <<>>)
    \/ \E c \in Conns, i \in Pollers : SelectEnter(c, i)
    \/ \E c \in Conns, i \in Pollers : Tick(c, i)
    \/ \E c \in Conns, i \in Pollers : IntervalChange(c, i)

SpecSetRace == Init /\ [][NextSetRace]_vars

(***************************************************************************)
(* One call of pollChatMessages while readPump handles a further auth      *)
(* frame of the same connection: c.ChatID is read anew for every entry     *)
(* of the batch.                                                           *)
(***************************************************************************)
\* case "auth" with the same agent_id and another chat_id, while the cycle
\* is between its fetch and the end of its loop: c.ChatID = msg.ChatID
CycAuth(ch) ==
    /\ cyc.stage \in {"fetch", "loop"}
    /\ ch # cyc.chatID
    /\ cyc' = [cyc EXCEPT !.chatID = ch]
    /\ UNCHANGED <<hubVars, sideVars>>

NextCycleAuth ==
    \/ CycFetchNothing
    \/ /\ cyc.stage = "fetch"
       /\ \E batch \in Batches(cyc.seq, EntryTemplates) : CycFetch(batch)
    \/ \E ch \in {"chat1", "a1"} : CycAuth(ch)
    \/ CycEntry
    \/ CycDispatch
    \/ \E g \in cyc.pending, answered \in BOOLEAN, nanos \in 1..MaxNanos :
          CycAssist(g, answered, nanos)
    \/ CycCommit
    \/ WritePump(CycConn)

SpecCycleAuth == InitCycle /\ [][NextCycleAuth]_vars

(***************************************************************************)
(* Properties.                                                             *)
(***************************************************************************)
MaxOfSet(S) == CHOOSE m \in S : \A x \in S : x <= m

\* startPolling goroutines of c that have not returned
RunningPollers(c) == {i \in Pollers : pc[c][i] \notin {"none", "stopped"}}

\* startPolling goroutines of c inside pollChatMessages
InCycle(c) == {i \in Pollers : pc[c][i] \in {"dispatch", "commit"}}

InMap(c) == \E a \in Agents : Clients[a] = c

\* C1: the poll cursor of a session never decreases while the process runs.
C1_CursorNeverDecreases ==
    [][\A c \in Conns : crash' = "none" => pollSeq'[c] >= pollSeq[c]]_vars

\* C2: a poll cycle that fetched a non-empty batch leaves the cursor at the
\* maximum of the cursor it started from and every sequence number present
\* in the batch, whatever happened to the entries.
C2_CursorIsMaxOfBatch ==
    (cyc.stage = "done" /\ cyc.committed) =>
        cyc.cursor = MaxOfSet({cyc.seq} \cup {cyc.batch[k].seq : k \in DOMAIN cyc.batch})

\* C2 witness: every entry of the batch failed to decrypt and the cursor moved.
C2_AllFailedCursorAdvanced ==
    /\ cyc.stage = "done" /\ cyc.committed
    /\ Len(cyc.batch) = MaxBatch
    /\ \A k \in DOMAIN cyc.batch : cyc.batch[k].stage = "baddecrypt"
    /\ cyc.cursor = cyc.seq + MaxBatch

\* C3: at most one pollChatMessages call of a session is in progress.
C3_CyclesNeverOverlap ==
    \A c \in Conns : Cardinality(InCycle(c)) <= 1

\* C4: once a session is unregistered and its pollers have returned, no
\* vendor session opened for it is still open.
C4_VendorSessionsReleased ==
    \A c \in Conns :
        (rp[c] = "exited" /\ RunningPollers(c) = {}) =>
            \A i \in Pollers : sdk[c][i] # "open"

\* C5: no task sends on a closed outbound queue and no queue is closed twice.
C5_NoSendAfterClose ==
    crash \notin {"send on closed channel", "close of closed channel"}

\* C6: whenever the poller loop evaluates c.pollTicker.C the ticker is non-nil.
C6_TickerSetAtSelect ==
    \A c \in Conns, i \in Pollers : pc[c][i] = "loop" => pollTicker[c] # NilTicker

\* C7: processing register for a session that is already registered changes
\* neither the live map, nor whether its queue is open, nor the number of its
\* running pollers.
C7_RegisterIdempotent ==
    [][\A c \in Conns :
         (Register(c) /\ crash' = "none" /\ HasKey(AgentID[c]) /\ Clients[AgentID[c]] = c) =>
            /\ Clients' = Clients
            /\ sendClosed'[c] = sendClosed[c]
            /\ Cardinality(RunningPollers(c)') = Cardinality(RunningPollers(c))]_vars

\* C8: a registered session whose queue is full when a broadcast is handled
\* is afterwards absent from the live map, has its queue closed and its stop
\* signal fired.
C8_FullSessionUnregistered ==
    [][(Broadcast /\ crash' = "none") =>
         \A c \in Conns :
            (InMap(c) /\ SendOutcome(Send[c], sendClosed[c]) = "ErrSendBufferFull") =>
                /\ ~InMap(c)'
                /\ sendClosed'[c]
                /\ pollStop'[c]]_vars

\* C9: the registry loop finishes every broadcast it starts and is ready for
\* the next event.
C9_BroadcastCompletes ==
    ~(crash # "none" /\ crashAt = "Run.Broadcast")

\* a step in which some task tries to enqueue on c.Send
EnqueueAttempt(c) ==
    \/ Register(c)
    \/ ManualAssistance(c, TRUE)
    \/ \E i \in Pollers : PollDispatch(c, i, TRUE)
    \/ \E i \in Pollers : IntervalChange(c, i)
    \/ \E sec \in HubIntervalRequests :
          SetPollIntervalReply(c, sec) # "" /\ SetPollInterval(c, sec)
    \/ (InMap(c) /\ Broadcast)

\* C10: an enqueue on a full outbound queue leaves the session removed from
\* the live map with its queue closed.
C10_FullEnqueueDisconnects ==
    [][\A c \in Conns :
         (EnqueueAttempt(c) /\ SendOutcome(Send[c], sendClosed[c]) = "ErrSendBufferFull") =>
            (sendClosed'[c] /\ ~InMap(c)')]_vars

\* the requests whose interval lies in [1 second, 1 hour]
InRange(halves) == 2 * MinInterval <= halves /\ halves <= 2 * MaxInterval

\* C11: a set_poll_interval request for a whole number of seconds in
\* [1 second, 1 hour] takes effect: without a poller the stored interval
\* becomes that value and the confirmation names it; with a poller the value
\* is handed to the poller loop, also when an earlier request is still
\* waiting in the control channel.
C11_ValidRequestTakesEffect ==
    [][\A c \in Conns, halves \in IntervalRequests :
         (/\ InRange(halves) /\ halves % 2 = 0
          /\ SetPollInterval(c, halves) /\ crash' = "none") =>
            \/ /\ weworkSDK[c] = NilSDK
               /\ 2 * pollInterval'[c] = halves
               /\ SendOutcome(Send[c], sendClosed[c]) = "ok" =>
                    Send'[c] = Append(Send[c], Frame("poll_interval_updated", halves))
            \/ /\ weworkSDK[c] # NilSDK
               /\ pollIntervalCh'[c] = Append(pollIntervalCh[c], halves \div 2)]_vars

\* C12: a set_poll_interval request below 1 second or above 1 hour changes
\* neither the stored interval nor the ticker nor the control channel, and
\* is answered with poll_interval_error.
C12_OutOfRangeRejected ==
    [][\A c \in Conns, halves \in IntervalRequests :
         (~InRange(halves) /\ SetPollInterval(c, halves) /\ crash' = "none") =>
            /\ pollInterval' = pollInterval
            /\ pollTicker' = pollTicker
            /\ pollIntervalCh' = pollIntervalCh
            /\ SendOutcome(Send[c], sendClosed[c]) = "ok" =>
                 Send'[c] = Append(Send[c], Frame("poll_interval_error", 0))]_vars

\* the elements of a sequence
Range(q) == {q[k] : k \in DOMAIN q}

\* a decrypted text entry of the agent's own outgoing side
AgentSide(e, agentID) ==
    /\ e.stage = "ok" /\ e.msgtype = "text" /\ e.msgid # ""
    /\ (e.from = agentID \/ e.action = "send")

\* C13: after a poll cycle every decrypted text message of the agent's own
\* side (origin equal to the agent id, or flagged "send") has been handed to
\* linkSuggestionToMessage and is in none of the contents sent to the
\* assistance collaborator.
C13_AgentSideToMatcherOnly ==
    (cyc.stage = "done" /\ cyc.committed) =>
        \A k \in DOMAIN cyc.batch :
            AgentSide(cyc.batch[k], cyc.agentID) =>
                /\ k \in Range(cyc.links)
                /\ \A g \in cyc.dispatched : k \notin Range(g[2])

\* the text entries of the counterpart in a batch
CounterpartTexts(batch, chatID) ==
    {k \in DOMAIN batch : /\ batch[k].stage = "ok" /\ batch[k].msgtype = "text"
                           /\ batch[k].from = chatID}

StillValid(entry, t) == entry.value # NoValue /\ entry.expireAt > t

\* C15: a request made while its slot holds a non-empty value and the time is
\* strictly before the stored expiry returns the cached value; the cache is
\* left alone and the identity endpoint is not called for that slot.
C15_FastPathNoRefresh ==
    [][\A p \in Callers :
         LET cl == tok.callers[p] IN
         /\ (CacheCheck(p) /\ StillValid(tok.cache[SlotOf(cl.op)], tok.now)) =>
               /\ tok'.callers[p].pc = "done"
               /\ tok'.callers[p].ret = tok.cache[SlotOf(cl.op)].value
               /\ tok'.issued = tok.issued /\ tok'.cache = tok.cache
         /\ (CacheTokenCheck(p) /\ StillValid(tok.cache["accessToken"], tok.now)) =>
               /\ tok'.callers[p].slot # "accessToken"
               /\ tok'.issued = tok.issued /\ tok'.cache = tok.cache]_vars

\* C15 witness: a call has returned a value from the cache after time has
\* passed since the refresh that stored it.
C15_ServedFromCache ==
    \E p \in Callers :
        /\ tok.callers[p].pc = "done" /\ tok.callers[p].hit
        /\ tok.callers[p].ret # NoValue
        /\ tok.now > tok.cache[SlotOf(tok.callers[p].op)].at

\* callers that are between their cache miss on a slot and their store
Refreshing(sl) ==
    {p \in Callers : tok.callers[p].pc \in {"get", "store"} /\ tok.callers[p].slot = sl}

\* C16: at most one refresh of a slot is in progress at any time.
C16_SingleRefresh ==
    \A sl \in Slots : Cardinality(Refreshing(sl)) <= 1

\* C17: a value the cache would answer now, issued with a declared TTL, is
\* not past its server-declared expiry (issue instant + TTL) by more than the
\* early-refresh margin.
C17_NotServedPastExpiry ==
    \A sl \in Slots :
        LET entry == tok.cache[sl] IN
        (StillValid(entry, tok.now) /\ entry.ttl > 0) =>
            tok.now <= entry.at + entry.ttl
                         + (IF entry.ttl \div 10 > 60 THEN entry.ttl \div 10 ELSE 60)

\* the expiry of the claim: now + (ttl - max(ttl div 10, 60)), ttl replaced
\* by 7200 when it is missing, zero or negative
ClaimedExpiry(t, ttl) ==
    LET T == IF ttl > 0 THEN ttl ELSE 7200
        m == IF T \div 10 > 60 THEN T \div 10 ELSE 60
    IN t + (T - m)

\* C18: a successful refresh stores the expiry now + (ttl - max(ttl div 10,
\* 60)) with the default 7200 for a missing, zero or negative ttl; for
\* ttl < 60 the stored expiry is not later than now.
C18_StoredExpiry ==
    [][\A p \in Callers :
         CacheStore(p) =>
            LET cl == tok.callers[p]
                stored == tok'.cache[cl.slot]
            IN /\ stored.value = cl.resp.n
               /\ stored.expireAt = ClaimedExpiry(tok.now, cl.resp.ttl)
               /\ (cl.resp.ttl > 0 /\ cl.resp.ttl < 60) => stored.expireAt <= tok.now]_vars

\* C18 witness: a value stored with a TTL below 60 s, already expired when
\* stored, and a value stored with the default TTL.
C18_ShortTTLStored ==
    \E sl \in Slots :
        /\ tok.cache[sl].value # NoValue
        /\ tok.cache[sl].ttl > 0 /\ tok.cache[sl].ttl < 60
        /\ tok.cache[sl].expireAt <= tok.cache[sl].at

\* the rows that carry the message id
Linked == {i \in DOMAIN lnk.rows : lnk.rows[i].msgID # ""}

\* the similarity of a row as the claims name it: 100 for a message equal to
\* the original text, the similarity of edited and original text for a
\* message equal to the edited text, that of message and original otherwise
Score(row) ==
    IF row.rel = "original" THEN 100
    ELSE IF row.rel = "edited" /\ ~row.hasOriginal THEN 100
    ELSE row.cosine

\* the rows the query returned that have something to compare with
Candidates == {i \in lnk.found : lnk.rows[i].rel # "other" \/ lnk.rows[i].hasOriginal}

\* C19: linkSuggestionToMessage changes a Suggestion row only if that row is
\* a candidate whose similarity reaches the threshold; when the best
\* candidate is below the threshold, a message equal to editedContent
\* included, no row is changed.
C19_NoUpdateBelowThreshold ==
    lnk.stage = "done" =>
        /\ \A i \in Linked : i \in Candidates /\ Score(lnk.rows[i]) >= lnk.threshold
        /\ (\A i \in Candidates : Score(lnk.rows[i]) < lnk.threshold) => Linked = {}

\* C19 witness: the call is over, the threshold is 80, the best candidate is
\* a row whose editedContent equals the message and scores 79, and no row
\* was changed.
C19_EditedBelowThreshold ==
    /\ lnk.stage = "done" /\ lnk.threshold = 80 /\ Linked = {}
    /\ \E i \in Candidates :
          /\ lnk.rows[i].rel = "edited" /\ Score(lnk.rows[i]) = 79
          /\ \A j \in Candidates : Score(lnk.rows[j]) <= 79

\* C20: the row that is linked has the greatest similarity among the
\* candidates that reach the threshold, and among those of that similarity
\* none was created later.
C20_BestNewestLinked ==
    lnk.stage = "done" =>
        \A i \in Linked, j \in Candidates :
            Score(lnk.rows[j]) >= lnk.threshold =>
                /\ Score(lnk.rows[i]) >= Score(lnk.rows[j])
                /\ Score(lnk.rows[i]) = Score(lnk.rows[j]) =>
                      lnk.rows[i].createdAt >= lnk.rows[j].createdAt

\* C20 witness: two candidates score 92, one older and one newer, and the
\* newer one is linked.
C20_NewerOfTieLinked ==
    /\ lnk.stage = "done"
    /\ \E i \in Linked, j \in Candidates :
          /\ Score(lnk.rows[i]) = 92 /\ Score(lnk.rows[j]) = 92
          /\ lnk.rows[i].createdAt > lnk.rows[j].createdAt

\* the similarity is k percent
IsPct(s, k) == s.num = k * k * s.den

\* C21: a row whose OriginalContent equals the message text is scored
\* exact_original with similarity 100, whatever its EditedContent is and
\* whatever calculateCosineSimilarity would return.
C21_ExactOriginalIs100 ==
    (sim.stage = "row" /\ sim.original = sim.content) =>
        sim.matchType = "exact_original" /\ IsPct(sim.similarity, 100)

\* C21 witness: a row whose OriginalContent and EditedContent both equal
\* the non-empty message text was scored exact_original.
C21_BothEqualScored ==
    /\ sim.stage = "row" /\ sim.content # <<>>
    /\ sim.original = sim.content /\ sim.edited = sim.content
    /\ sim.matchType = "exact_original"

\* C22 as stated: calculateCosineSimilarity returns 100 for any two equal
\* texts and 0 whenever one of the texts is empty.
C22_IdenticalIs100EmptyIs0 ==
    sim.stage = "cosine" =>
        /\ sim.content = sim.original => IsPct(sim.similarity, 100)
        /\ (sim.content = <<>> \/ sim.original = <<>>) => IsPct(sim.similarity, 0)

\* C22 amended: calculateCosineSimilarity returns 100 for any two equal
\* non-empty texts and 0 whenever one of the texts is empty, two empty
\* texts included.
C22_NonEmptyIdenticalIs100 ==
    sim.stage = "cosine" =>
        /\ (sim.content = sim.original /\ sim.content # <<>>) =>
               IsPct(sim.similarity, 100)
        /\ (sim.content = <<>> \/ sim.original = <<>>) => IsPct(sim.similarity, 0)

\* C22 witness: two equal texts without any word of two characters, for
\* which the vectors are empty, were given 100.
C22_EqualWordlessTexts ==
    /\ sim.stage = "cosine" /\ sim.content = sim.original
    /\ sim.content # <<>> /\ DOMAIN tokenize(sim.content) = {}
    /\ IsPct(sim.similarity, 100)

\* C23: no two rows of the Suggestion table carry the same non-empty msg_id.
C23_OneSuggestionPerMessage ==
    \A i, j \in DOMAIN store.rows :
        (store.rows[i].msgID # "" /\ store.rows[i].msgID = store.rows[j].msgID) => i = j

\* C24: when startPolling gives up for a missing environment variable or a
\* failed sdk.Init, no fetch follows, a frame is put on c.Send and the
\* session stays in the map of the hub.
C24_StartFailureReported ==
    [][\A c \in Conns, i \in Pollers :
          StartFail(c, i) =>
              /\ pc'[c][i] = "stopped"
              /\ Clients' = Clients
              /\ Len(Send'[c]) > Len(Send[c])]_vars

\* C25: a startPolling goroutine that has opened its SDK goes from the start
\* straight to a fetch, with the ticker just created, and reaches the select
\* that receives the ticks only after a fetch: the loop is entered from a
\* fetch (or its dispatch and commit) or from the select itself, and the
\* select from the loop (in every step that leaves the process running).
C25_FirstFetchBeforeTick ==
    [][\A c \in Conns, i \in Pollers : crash' = "none" =>
          /\ (pc[c][i] = "start" /\ pc'[c][i] \notin {"start", "stopped"}) =>
                (pc'[c][i] = "poll" /\ pollTicker'[c] = pollInterval[c])
          /\ (pc[c][i] # "loop" /\ pc'[c][i] = "loop") =>
                pc[c][i] \in {"poll", "dispatch", "commit", "select"}
          /\ (pc[c][i] # "select" /\ pc'[c][i] = "select") => pc[c][i] = "loop"
          /\ (pc[c][i] # "poll" /\ pc'[c][i] = "poll") =>
                pc[c][i] \in {"start", "select"}]_vars

\* C25 witness: a poller is at its fetch with the cursor still at 0, its
\* SDK open and the ticker running.
C25_AtFirstFetch ==
    \E c \in Conns, i \in Pollers :
        /\ pc[c][i] = "poll" /\ pollSeq[c] = 0 /\ weworkSDK[c] = i
        /\ pollTicker[c] # NilTicker /\ sdk[c][i] = "open"

\* C27, as far as a finite run shows it: once the stop signal of a session
\* has fired, its startPolling goroutines do not end the process instead of
\* returning, and one that returns on the stop signal leaves its own SDK
\* destroyed and the ticker cleared.
C27_StopReachesStopped ==
    [][\A c \in Conns, i \in Pollers :
          (pollStop[c] /\ pc[c][i] \notin {"none", "stopped"}) =>
              /\ ~(crash' # "none" /\ crashAt' = "startPolling")
              /\ pc'[c][i] = "stopped" =>
                    (sdk'[c][i] # "open" /\ pollTicker'[c] = NilTicker)]_vars

\* C28: once the stop signal of a session has fired, none of its
\* startPolling goroutines begins a fetch: neither the first one after the
\* start nor one for a tick.
C28_NoFetchAfterStop ==
    [][\A c \in Conns, i \in Pollers :
          (pollStop[c] /\ pc[c][i] = "poll" /\ weworkSDK[c] # NilSDK) =>
              (crash' = "none" => pc'[c][i] = "poll")]_vars

\* an entry that, taken alone, is decrypted, parsed, of the conversation and
\* of a kind that yields content
Aggregable(e, chatID) ==
    /\ e.stage = "ok"
    /\ e.from = "" \/ e.from = chatID
    /\ e.msgtype \in {"text", "voice"}
    /\ ~(e.msgtype = "voice" /\ e.voice = "bad")

\* C29: every entry the loop has passed is in chatMessages exactly when it
\* is aggregable taken alone, whatever happened to the entries before it, and
\* the dispatch starts only when the loop has passed every entry.
C29_FailureSkipsOneEntry ==
    /\ \A k \in DOMAIN cyc.batch :
          k < cyc.idx =>
              ((\E n \in DOMAIN cyc.chatMessages : cyc.chatMessages[n][2] = k)
                  <=> Aggregable(cyc.batch[k], cyc.chatID))
    /\ cyc.stage = "assist" => cyc.idx > Len(cyc.batch)

\* C29 witness: the first entry failed to decrypt or to parse and the entry
\* after it was aggregated.
C29_AggregatedAfterFailure ==
    /\ cyc.stage = "assist" /\ Len(cyc.batch) >= 2
    /\ cyc.batch[1].stage \in {"baddecrypt", "badjson"}
    /\ \E n \in DOMAIN cyc.chatMessages : cyc.chatMessages[n][2] = 2

Touches(t) == StmtAt(t, mu.pc[t]).acc

\* C26: no two goroutines of a session are at statements that touch the same
\* field, one of them writing it, unless both hold c.mu at their statement.
C26_FieldsUnderLock ==
    \A t1, t2 \in Tasks :
        t1 # t2 =>
            \A a1 \in Touches(t1), a2 \in Touches(t2) :
                (a1[1] = a2[1] /\ "w" \in {a1[2], a2[2]}) =>
                    (mu.holder = t1 /\ mu.holder = t2)


Malformed(msg) ==
    \/ msg.type = "unparseable"
    \/ msg.type = "ai_feedback" /\ (msg.suggestion_id = 0 \/ msg.action = "")

\* C32: a malformed client frame is dropped without side effects and
\* without ending the session: the step of readPump that reads it changes
\* no Suggestion row and no field of the session or of the registry, and
\* leaves the reader in its loop, ready for the next frame
C32_MalformedFrameDropped ==
    [][/\ fb.inbox # <<>> /\ Malformed(Head(fb.inbox))
       /\ Len(fb'.log) = Len(fb.log) + 1
       => /\ store' = store
          /\ hubVars' = hubVars
          /\ rp'[FramesConn] = "reading"]_vars

\* a malformed ai_feedback frame that names an existing row was read and
\* dropped, and the frame after it was handled: a later ai_feedback frame
\* rewrote the row, or a later get_poll_interval was answered
C32_HandledAfterMalformed ==
    /\ Len(fb.log) = 2
    /\ fb.log[1].type = "ai_feedback" /\ fb.log[1].action = "" /\ fb.log[1].suggestion_id = 1
    /\ \/ /\ fb.log[2].type = "ai_feedback" /\ ~Malformed(fb.log[2])
          /\ Len(store.rows) > 0 /\ store.rows[1].rel = "edited"
       \/ /\ fb.log[2].type = "get_poll_interval"
          /\ \E c \in Conns : Send[c] # <<>>


\* C33: suggestion identifiers are unique: no two ai_suggestion events
\* enqueued and no two rows inserted carry the same identifier
C33_SuggestionIdsUnique ==
    /\ \A i, j \in DOMAIN asst.events : i # j => asst.events[i] # asst.events[j]
    /\ \A i, j \in DOMAIN asst.rows : i # j => asst.rows[i] # asst.rows[j]

\* C39: a Suggestion row is persisted only after the ai_suggestion event
\* with its identifier was enqueued: every row carries the identifier of
\* an enqueued event, a request inserts only after its own SendMessage
\* succeeded, and a request without a text or whose enqueue failed on a
\* full queue ends without a row of its own
C39_RowOnlyAfterEnqueue ==
    /\ \A i \in DOMAIN asst.rows :
          \E j \in DOMAIN asst.events : asst.events[j] = asst.rows[i]
    /\ \A d \in Dispatches : asst.calls[d].stage = "insert" => asst.calls[d].sent
    /\ Len(asst.rows) <= Cardinality({d \in Dispatches : asst.calls[d].sent})

\* one request found the queue full and returned without a row, another
\* enqueued its event and inserted its row
C39_FullQueueNoRow ==
    \E d, e \in Dispatches :
        /\ asst.calls[d].stage = "done" /\ asst.calls[d].id # <<>> /\ ~asst.calls[d].sent
        /\ asst.calls[e].stage = "done" /\ asst.calls[e].sent
        /\ asst.calls[e].id # asst.calls[d].id
        /\ asst.rows = <<asst.calls[e].id>>


\* C34: every poll cycle terminates: when each call of a collaborator
\* returns, a started pollChatMessages call eventually returns, also when
\* its batch holds a voice entry whose media comes chunk by chunk
C34_CycleTerminates == <>(cyc.stage = "done")


\* C40: a poll cycle whose archive fetch fails or brings no record (an
\* error, an empty result, unparseable data, an error code, an empty
\* record list) leaves the cursor where it was and starts no assistance
\* dispatch and no suggestion link
C40_EmptyFetchNoEffect ==
    cyc.stage = "done" /\ cyc.batch = <<>>
    => /\ cyc.cursor = cyc.seq /\ ~cyc.committed
       /\ cyc.dispatched = {} /\ cyc.calls = 0 /\ cyc.pushed = <<>>
       /\ cyc.links = <<>>
       /\ \A c \in Conns : \A k \in DOMAIN Send[c] : Send[c][k].type # "ai_suggestion"

\* a cycle of a session whose cursor is beyond 0 has returned after a fetch
\* without records
C40_ReturnedEmptyHanded ==
    cyc.stage = "done" /\ cyc.batch = <<>> /\ cyc.seq > 0


\* C35: unregistering a session removes a live-map entry only if the entry
\* is that session: a step in which connection c leaves takes no entry
\* that holds another connection out of the map, and when c had been
\* registered its queue is closed and its poller told to stop afterwards
C35_UnregisterOwnEntryOnly ==
    [][\A c \in RegConns :
          reg.rp[c] = "reading" /\ reg'.rp[c] = "exited"
          => /\ \A a \in Agents :
                   reg.Clients[a] # NoClient /\ reg'.Clients[a] = NoClient
                   => reg.Clients[a] = c
             /\ reg.pollers[c] > 0 => reg'.sendClosed[c] /\ reg'.pollStop[c]]_vars


\* C36: registry key consistency: every entry of the live map is keyed by
\* the current agent id of the session it holds, no session is held under
\* two keys, and every session in the map has an open outbound queue
C36_RegistryKeysConsistent ==
    \A a \in Agents :
        Clients[a] # NoClient
        => /\ AgentID[Clients[a]] = a
           /\ \A b \in Agents \ {a} : Clients[b] # Clients[a]
           /\ ~sendClosed[Clients[a]]


\* C37: whenever a poller of the session is Running, the stored interval,
\* which get_poll_interval reports, is the period of the ticker that
\* drives the poller
C37_ReportedIntervalIsPeriod ==
    \A c \in Conns :
        (\E i \in Pollers : pc[c][i] \notin {"none", "start", "stopped"})
            /\ pollTicker[c] # NilTicker
        => pollInterval[c] = pollTicker[c]


\* C38: a poll cycle issues at most one assistance dispatch: all messages
\* kept for aggregation are in one group, which holds them in batch order
C38_OneDispatchPerCycle ==
    cyc.stage \in {"assist", "done"}
    => /\ Cardinality(cyc.dispatched) <= 1
       /\ \A g \in cyc.dispatched :
             g[2] = [k \in DOMAIN cyc.chatMessages |-> cyc.chatMessages[k][2]]

=============================================================================
